---- MODULE Spec2Model ----
(***************************************************************************)
(* Model of the shared in-memory structures of raspberry-pi/collector.py:  *)
(* InstrumentHealthTracker (a per-code sliding window of poll outcomes     *)
(* behind a threading.Lock) and MultiInstrumentDataStore (a per-code dict  *)
(* of latest readings behind a threading.Lock), as they are used by the    *)
(* collector's threads, of the device readers that write to both          *)
(* (read_sqm_device, read_weatherlink_device, read_cloudwatcher_device)    *)
(* with the identity of their instrument, and of the classifiers of the    *)
(* Cloudwatcher handlers.                                                  *)
(*                                                                         *)
(* A thread's call of a method is a short sequence of steps: the step that *)
(* takes the lock (`with self._lock:` blocks while another thread holds    *)
(* it, so the step is enabled only when the lock is free) and the          *)
(* statements of the body, the last of which leaves the with-block and     *)
(* releases the lock.                                                      *)
(***************************************************************************)
EXTENDS Integers, Sequences, FiniteSets, TLC

\* The threads of the collector that are modelled: two device readers and
\* the paho-mqtt network thread, which runs on_mqtt_message.
MqttThread == "mqtt"
Threads == {"reader1", "reader2", MqttThread}

\* The threads that call the health tracker, and those that call the store.
TrackerThreads == {"reader1", "reader2"}
StoreThreads == {"reader1", MqttThread}

\* Instrument codes: an address-derived code and a hardware-id-derived one.
Codes == {"sqm-192-168-1-5", "sqm-41"}

\* Total number of outcomes recorded in one run of the tracker model.
MaxRecords == 11

\* Total number of outcomes recorded in one run of the fair tracker model.
MaxRecordsFair == 3

\* Number of calls of update (a lora message makes one) in one run of the
\* store model; each creates at most one lora_sensors object.
MaxUpdates == 3

\* Largest reading of the clock (datetime.utcnow()) in the store model.
MaxTime == 2

\* No thread: the value of a free lock.
NoThread == "none"

\* The value of a local of a thread that holds nothing.
Nothing == "nothing"

\* Python's None as the value of a field of a reading; the other values of
\* fields are numbers from 1 on.
None == -1

VARIABLES
    history,        \* InstrumentHealthTracker._history: dict code -> list of bool
    tracker_lock,   \* InstrumentHealthTracker._lock: its holder, or NoThread
    pc,             \* per thread: where it is in the method it is running
    arg,            \* per thread: the instrument_code argument of that method
    tmp,            \* per thread: the slice read at line 131/140, not yet stored
    keys,           \* per thread: codes get_all_statuses has still to visit
    statuses,       \* per thread: the mapping get_all_statuses has built so far
    returned,       \* per thread: the value the method is about to return, with
                    \* the method it comes from
    recorded,       \* history variable: every outcome recorded per code, in lock order
    quota,          \* number of outcomes the run may still record
    instruments,    \* MultiInstrumentDataStore._instruments: dict code -> dict
    inst_order,     \* the insertion order of the keys of _instruments
    heap,           \* the lora_sensors dict objects, by address
    store_lock,     \* MultiInstrumentDataStore._lock: its holder, or NoThread
    now,            \* the clock read by datetime.utcnow()
    kwargs,         \* per thread: the **kwargs of the update it calls
    current,        \* per thread: on_mqtt_message's `current`, the reading it got
    sensor,         \* per thread: on_mqtt_message's sensor_id, Nothing outside it
    seen,           \* history variable, per thread: the sensor ids in `current`
                    \* when get returned it
    before,         \* history variable, per thread: the entry as update found it
    call_time,      \* history variable, per thread: the clock when update began
    extractedleft,   \* number of update calls the run may still make
    serial,         \* history variable: the entries, by value, that the calls
                    \* of update made so far give when each is applied at once,
                    \* in the order in which they took the lock
    instrument_code,    \* per device reader: its local instrument_code
    serial_obtained,    \* per device reader: its local serial_obtained / lsid_obtained
    connected,      \* per device reader: it is inside its connection (the SQM
                    \* reader's with-block; the HTTP readers have none)
    writes,         \* history variable, per device reader: the codes of its
                    \* data_store.update and health_tracker.record_* calls, in order
    promoted_at,    \* history variable, per device reader: the number of writes
                    \* it had made when it took a hardware-derived code, -1 before
    resolved_id,    \* history variable, per device reader: the hardware id a
                    \* lookup gave it, NoId while none has
    polls,          \* history variable, per device reader: the poll attempts it
                    \* has ended, each with how it ended and the updates extracted
    lookups,        \* history variable, per device reader: what each of its
                    \* lookups of the hardware id returned
    reached,        \* history variable, per device reader: an exchange with the
                    \* device has succeeded (a connection, a response)
    lookup_failed,  \* history variable, per device reader: a lookup of the
                    \* hardware id has completed without an id
    polls_left,     \* number of steps the device readers may still take
    msg,            \* the fields of the Cloudwatcher message being handled
    updates,        \* the `updates` dict the handler has built from msg
    handler,        \* which handler built updates, Nothing before any has
    phase,          \* per device: where its reader thread is in its loop
    pending,        \* per device: how the attempt in progress has ended
    hb,             \* the heartbeat thread: its position and its locals
    answering       \* per device: whether it answers the calls of this run

\* The locals of the device readers and of the Cloudwatcher handlers, which
\* no method of the tracker or of the store reads or writes.
readerVars == <<instrument_code, serial_obtained, connected, writes, promoted_at,
                resolved_id, polls, lookups, reached, lookup_failed, polls_left>>
classifyVars == <<msg, updates, handler>>
\* The positions of the threads in their loops, which no method reads.
loopVars == <<phase, pending, hb, answering>>

\* A value a method is about to return, with the method it comes from, and
\* the value of a thread that is not returning.
Return(kind, value) == [kind |-> kind, value |-> value]
NoReturn == [kind |-> "none", value |-> Nothing]
\* Per thread: the value the method is about to return, Nothing outside a
\* return.
ret == [t \in Threads |-> returned[t].value]

trackerVars == <<history, tracker_lock, recorded, quota>>
localVars == <<pc, arg, tmp, keys, statuses, returned>>
\* What the tracker's methods neither read nor write.
storeOnly == <<instruments, inst_order, heap, store_lock, now, kwargs, current,
               sensor, seen, before, call_time, extractedleft, serial, readerVars,
               classifyVars, loopVars>>
\* What the store's methods and callers neither read nor write.
trackerOnly == <<history, tracker_lock, recorded, quota, tmp, keys, statuses,
                 readerVars, classifyVars, loopVars>>
vars == <<history, tracker_lock, pc, arg, tmp, keys, statuses, returned, recorded, quota,
          instruments, inst_order, heap, store_lock, now, kwargs, current, sensor,
          seen, before, call_time, extractedleft, serial, instrument_code, serial_obtained,
          connected, writes, promoted_at, resolved_id, polls, lookups, reached, lookup_failed,
          polls_left,
          msg, updates, handler, phase, pending, hb, answering>>

----------------------------------------------------------------------------
(* InstrumentHealthTracker: constants and the pure parts of its methods.   *)

WINDOW_SIZE == 10
MIN_READINGS == 3
\* The thresholds 0.2 and 0.8 as fractions <<numerator, denominator>>.
DEGRADED_THRESHOLD == <<2, 10>>
OFFLINE_THRESHOLD == <<8, 10>>

\* lst[-n:] for n > 0: the last n elements of lst, all of it when it is shorter.
LastN(lst, n) ==
    IF Len(lst) <= n THEN lst ELSE SubSeq(lst, Len(lst) - n + 1, Len(lst))

\* lst[:n], the first n elements.
FirstN(lst, n) ==
    IF Len(lst) <= n THEN lst ELSE SubSeq(lst, 1, n)

\* self._history.get(instrument_code, [])
HistoryGetUnknownFailing(h, code) ==
    IF code \in DOMAIN h THEN h[code] ELSE <<FALSE, FALSE, FALSE>>

HistoryGet(h, code) == IF code \in DOMAIN h THEN h[code] ELSE <<>>

\* sum(1 for success in history if not success)
RECURSIVE FailureCount(_)
FailureCount(lst) ==
    IF lst = <<>> THEN 0
    ELSE (IF Head(lst) THEN 0 ELSE 1) + FailureCount(Tail(lst))

\* failure_count / len(history) >= threshold.  The quotient of two integers
\* up to WINDOW_SIZE is a correctly rounded double and so is the threshold
\* literal; for these operands the comparison of the doubles agrees with the
\* comparison of the fractions, which is what is computed here.
RateAtLeast(rate, threshold) ==
    rate[1] * threshold[2] >= threshold[1] * rate[2]

RateAbove(rate, threshold) ==
    rate[1] * threshold[2] > threshold[1] * rate[2]

\* The body of get_failure_rate: 0.0 for no history, else failures / length.
FailureRateNoEmptyCase(lst) == <<FailureCount(lst), Len(lst)>>

FailureRateOfSuccesses(lst) ==
    IF lst = <<>> THEN <<0, 1>> ELSE <<Len(lst) - FailureCount(lst), Len(lst)>>

FailureRate(lst) ==
    IF lst = <<>> THEN <<0, 1>> ELSE <<FailureCount(lst), Len(lst)>>

\* The body of get_status.
StatusNoGrace(lst) ==
    IF Len(lst) < 1 THEN "HEALTHY"
    ELSE LET failure_rate == <<FailureCount(lst), Len(lst)>>
         IN  IF RateAtLeast(failure_rate, OFFLINE_THRESHOLD) THEN "OFFLINE"
             ELSE IF RateAtLeast(failure_rate, DEGRADED_THRESHOLD) THEN "DEGRADED"
             ELSE "HEALTHY"

StatusStrictThresholds(lst) ==
    IF Len(lst) < MIN_READINGS THEN "HEALTHY"
    ELSE LET failure_rate == <<FailureCount(lst), Len(lst)>>
         IN  IF RateAbove(failure_rate, OFFLINE_THRESHOLD) THEN "OFFLINE"
             ELSE IF RateAbove(failure_rate, DEGRADED_THRESHOLD) THEN "DEGRADED"
             ELSE "HEALTHY"

Status(lst) ==
    IF Len(lst) < MIN_READINGS THEN "HEALTHY"
    ELSE LET failure_rate == <<FailureCount(lst), Len(lst)>>
         IN  IF RateAtLeast(failure_rate, OFFLINE_THRESHOLD) THEN "OFFLINE"
             ELSE IF RateAtLeast(failure_rate, DEGRADED_THRESHOLD) THEN "DEGRADED"
             ELSE "HEALTHY"

\* `with self._lock:` can be entered: threading.Lock is not reentrant, so it
\* is free only when no thread at all holds it.
LockIgnored(lock) == TRUE

LockFree(lock) == lock = NoThread

\* history[code] = history[code][-WINDOW_SIZE:], its right-hand side.
TrimKeepsOldest(lst) == FirstN(lst, WINDOW_SIZE)

TrimNever(lst) == lst

Trim(lst) == LastN(lst, WINDOW_SIZE)

----------------------------------------------------------------------------
(* InstrumentHealthTracker: the steps of its methods.                      *)

\* Lines 126-129 (record_success) and 135-138 (record_failure): take the
\* lock, create the list of a new code, append the outcome in place.
RecordAppend(t, code, success) ==
    /\ pc[t] = "idle"
    /\ quota > 0
    /\ LockFree(tracker_lock)
    /\ tracker_lock' = t
    /\ history' = [c \in DOMAIN history \cup {code} |->
                     IF c = code THEN Append(HistoryGet(history, code), success)
                     ELSE history[c]]
    /\ recorded' = [recorded EXCEPT ![code] = Append(@, success)]
    /\ quota' = quota - 1
    /\ pc' = [pc EXCEPT ![t] = "rec_slice"]
    /\ arg' = [arg EXCEPT ![t] = code]
    /\ UNCHANGED <<tmp, keys, statuses, returned>>
    /\ UNCHANGED storeOnly

record_success(t) == \E code \in Codes : RecordAppend(t, code, TRUE)

record_failure(t) == \E code \in Codes : RecordAppend(t, code, FALSE)

\* Lines 131 and 140, right-hand side: read the list and slice it.
RecordSlice(t) ==
    /\ pc[t] = "rec_slice"
    /\ tmp' = [tmp EXCEPT ![t] = Trim(history[arg[t]])]
    /\ pc' = [pc EXCEPT ![t] = "rec_store"]
    /\ UNCHANGED <<trackerVars, arg, keys, statuses, returned>>
    /\ UNCHANGED storeOnly

\* Lines 131 and 140, the assignment, and the end of the with-block, which
\* releases the lock.
RecordStore(t) ==
    /\ pc[t] = "rec_store"
    /\ history' = [history EXCEPT ![arg[t]] = tmp[t]]
    /\ tracker_lock' = NoThread
    /\ pc' = [pc EXCEPT ![t] = "idle"]
    /\ arg' = [arg EXCEPT ![t] = Nothing]
    /\ tmp' = [tmp EXCEPT ![t] = <<>>]
    /\ UNCHANGED <<recorded, quota, keys, statuses, returned>>
    /\ UNCHANGED storeOnly

\* get_status, lines 150-165: take the lock and compute the status.  It is
\* called by a client (from "idle") and by the comprehension of
\* get_all_statuses (from "gas_call", for the code that one has reached).
get_status(t) ==
    /\ pc[t] \in {"idle", "gas_call"}
    /\ LockFree(tracker_lock)
    /\ \E code \in Codes :
        /\ pc[t] = "gas_call" => code = arg[t]
        /\ arg' = [arg EXCEPT ![t] = code]
        /\ returned' = [returned EXCEPT ![t] = Return("get_status", Status(HistoryGet(history, code)))]
    /\ tracker_lock' = t
    /\ pc' = [pc EXCEPT ![t] = IF pc[t] = "idle" THEN "gs_ret" ELSE "gas_gs_ret"]
    /\ UNCHANGED <<history, recorded, quota, tmp, keys, statuses>>
    /\ UNCHANGED storeOnly

\* The return of get_status: the with-block ends, the lock is released and
\* the value goes to the caller.
GetStatusReturn(t) ==
    /\ pc[t] \in {"gs_ret", "gas_gs_ret"}
    /\ tracker_lock' = NoThread
    /\ IF pc[t] = "gs_ret"
       THEN /\ pc' = [pc EXCEPT ![t] = "idle"]
            /\ arg' = [arg EXCEPT ![t] = Nothing]
            /\ UNCHANGED <<statuses, keys>>
       ELSE /\ pc' = [pc EXCEPT ![t] = "gas_iter"]
            /\ statuses' = [statuses EXCEPT ![t] = @ @@ (arg[t] :> ret[t])]
            /\ keys' = [keys EXCEPT ![t] = @ \ {arg[t]}]
            /\ UNCHANGED arg
    /\ returned' = [returned EXCEPT ![t] = NoReturn]
    /\ UNCHANGED <<history, recorded, quota, tmp>>
    /\ UNCHANGED storeOnly

\* get_failure_rate, lines 174-179.
get_failure_rate(t) ==
    /\ pc[t] = "idle"
    /\ LockFree(tracker_lock)
    /\ tracker_lock' = t
    /\ \E code \in Codes :
        /\ arg' = [arg EXCEPT ![t] = code]
        /\ returned' = [returned EXCEPT ![t] = Return("get_failure_rate", FailureRate(HistoryGet(history, code)))]
    /\ pc' = [pc EXCEPT ![t] = "gfr_ret"]
    /\ UNCHANGED <<history, recorded, quota, tmp, keys, statuses>>
    /\ UNCHANGED storeOnly

GetFailureRateReturn(t) ==
    /\ pc[t] = "gfr_ret"
    /\ tracker_lock' = NoThread
    /\ pc' = [pc EXCEPT ![t] = "idle"]
    /\ arg' = [arg EXCEPT ![t] = Nothing]
    /\ returned' = [returned EXCEPT ![t] = NoReturn]
    /\ UNCHANGED <<history, recorded, quota, tmp, keys, statuses>>
    /\ UNCHANGED storeOnly

\* get_all_statuses, line 169: take the lock; line 170 starts the
\* comprehension over self._history.keys().
get_all_statuses(t) ==
    /\ pc[t] = "idle"
    /\ LockFree(tracker_lock)
    /\ tracker_lock' = t
    /\ keys' = [keys EXCEPT ![t] = DOMAIN history]
    /\ statuses' = [statuses EXCEPT ![t] = <<>>]
    /\ pc' = [pc EXCEPT ![t] = "gas_iter"]
    /\ UNCHANGED <<history, recorded, quota, arg, tmp, returned>>
    /\ UNCHANGED storeOnly

\* Line 170, one turn of the comprehension: with no code left the mapping
\* is complete, otherwise the next code is passed to self.get_status.
GetAllStatusesIter(t) ==
    /\ pc[t] = "gas_iter"
    /\ IF keys[t] = {}
       THEN /\ returned' = [returned EXCEPT ![t] = Return("get_all_statuses", statuses[t])]
            /\ pc' = [pc EXCEPT ![t] = "gas_ret"]
            /\ UNCHANGED arg
       ELSE /\ \E code \in keys[t] : arg' = [arg EXCEPT ![t] = code]
            /\ pc' = [pc EXCEPT ![t] = "gas_call"]
            /\ UNCHANGED returned
    /\ UNCHANGED <<trackerVars, tmp, keys, statuses>>
    /\ UNCHANGED storeOnly

\* The return of get_all_statuses: the outer with-block ends.
GetAllStatusesReturn(t) ==
    /\ pc[t] = "gas_ret"
    /\ tracker_lock' = NoThread
    /\ pc' = [pc EXCEPT ![t] = "idle"]
    /\ returned' = [returned EXCEPT ![t] = NoReturn]
    /\ statuses' = [statuses EXCEPT ![t] = <<>>]
    /\ UNCHANGED <<history, recorded, quota, arg, tmp, keys>>
    /\ UNCHANGED storeOnly

----------------------------------------------------------------------------
(* MultiInstrumentDataStore: values and the pure parts of its methods.     *)
(*                                                                         *)
(* A reading is a Python dict: a function from the keys it holds to their  *)
(* values.  The value of "lora_sensors" is a dict object of its own; such  *)
(* objects live in heap and a reading holds the address of one, so that    *)
(* two readings can hold the same object, as two Python dicts can.         *)

\* CONFIG["instrument_code_mqtt_weather"], its default.
INSTRUMENT_CODE_MQTT_WEATHER == "wx-mqtt"

\* The instrument codes used as keys of the store.
StoreCodes == {INSTRUMENT_CODE_MQTT_WEATHER, "sqm-41"}

\* The ids of the LoRa sensors that send messages.
SensorIds == {"k1", "k2"}

\* The empty dict {}.
EmptyDict == <<>>

\* d[k] = v
DictSetAlone(d, k, v) == [x \in {k} |-> v]

DictSet(d, k, v) == [x \in DOMAIN d \cup {k} |-> IF x = k THEN v ELSE d[x]]

\* The keyword arguments with which the callers pass scalar fields to
\* update: a temperature, a humidity, another temperature, and a reading
\* whose temperature is None.
ScalarKwargs ==
    { DictSet(EmptyDict, "temperature", 20),
      DictSet(EmptyDict, "humidity", 50),
      DictSet(EmptyDict, "temperature", 10),
      DictSet(DictSet(EmptyDict, "temperature", None), "humidity", 50) }

\* d.get(k, default)
DictGet(d, k, default) == IF k \in DOMAIN d THEN d[k] ELSE default

\* d.update(other)
DictUpdate(d, other) ==
    [x \in DOMAIN d \cup DOMAIN other |-> IF x \in DOMAIN other THEN other[x] ELSE d[x]]

\* d.copy(): a new dict with the same keys and the same values, so a value
\* that is the address of a lora_sensors object is the same address.
DictCopy(d) == d

\* A reading by value: the contents of its lora_sensors object in place of
\* the object's address.
ByValue(reading, objects) ==
    [k \in DOMAIN reading |->
        IF k = "lora_sensors" THEN objects[reading[k]] ELSE reading[k]]

\* Line 306, current.get("lora_sensors", {}): the object the reading holds,
\* or a new empty one (at address fresh).
LoraSensorsAlwaysNew(reading, fresh) == fresh

LoraSensorsOf(reading, fresh) == DictGet(reading, "lora_sensors", fresh)

\* Line 203: the timestamp an update leaves in the entry.
StampKeepsOld(entry, clock) ==
    IF "timestamp" \in DOMAIN entry THEN entry ELSE DictSet(entry, "timestamp", clock)

Stamp(entry, clock) == DictSet(entry, "timestamp", clock)

\* Line 202: self._instruments[instrument_code].update(kwargs).
MergeReplacesEntry(entry, kw) == kw

Merge(entry, kw) == DictUpdate(entry, kw)

\* The initial value of combined in get_combined (lines 218-237), for the
\* fields that are modelled.
CombinedDefaults ==
    [k \in {"timestamp", "temperature", "humidity", "cloud_condition", "lora_sensors"} |->
        IF k = "lora_sensors" THEN EmptyDict
        ELSE IF k = "cloud_condition" THEN "Unknown"
        ELSE None]

\* Lines 241-245: one instrument's data folded into combined.  The keys of
\* one dict are distinct, so the order in which they are met is immaterial.
FoldInstrumentNullOverwrites(combined, data, objects) ==
    [k \in DOMAIN combined |->
        IF k = "lora_sensors"
        THEN IF k \in DOMAIN data
             THEN DictUpdate(combined[k], objects[data[k]])
             ELSE combined[k]
        ELSE IF k \in DOMAIN data THEN data[k] ELSE combined[k]]

FoldInstrument(combined, data, objects) ==
    [k \in DOMAIN combined |->
        IF k = "lora_sensors"
        THEN IF k \in DOMAIN data
             THEN DictUpdate(combined[k], objects[data[k]])
             ELSE combined[k]
        ELSE IF k \in DOMAIN data /\ data[k] # None THEN data[k] ELSE combined[k]]

\* Lines 240-247: the fold over self._instruments.values(), in the order of
\* the dict, which is the order in which the codes were inserted.
RECURSIVE FoldAll(_, _, _, _)
FoldAll(combined, order, insts, objects) ==
    IF order = <<>> THEN combined
    ELSE FoldAll(FoldInstrument(combined, insts[Head(order)], objects),
                 Tail(order), insts, objects)

----------------------------------------------------------------------------
(* MultiInstrumentDataStore: its callers and the steps of its methods.     *)

\* The calls of update a thread can make, each with the heap as it is once
\* the caller has built the arguments.  The MQTT thread, in the lora branch,
\* passes the mapping it has prepared (line 311).  A reader passes scalar
\* fields for a code (lines 521, 654, 777), or, for the code that holds the
\* LoRa sensors, a lora_sensors mapping it has built itself.
UpdateCalls(t) ==
    IF pc[t] = "lora_update"
    THEN {[code |-> arg[t], kw |-> kwargs[t], objects |-> heap]}
    ELSE {[code |-> code, kw |-> kw, objects |-> heap] :
            code \in StoreCodes, kw \in ScalarKwargs}
         \cup
         {[code |-> INSTRUMENT_CODE_MQTT_WEATHER,
           kw |-> DictSet(EmptyDict, "lora_sensors", Len(heap) + 1),
           objects |-> Append(heap, DictSet(EmptyDict, sensor_id, [last_update |-> now]))] :
            sensor_id \in SensorIds}

\* The iteration order of self._instruments after update(code, ...), lines
\* 200-202: a new key goes to the end of the dict, an assignment to a key
\* the dict has leaves it in its place.
OrderAfterMovesToEnd(order, code) ==
    Append(SelectSeq(order, LAMBDA c : c # code), code)

OrderAfter(order, code) ==
    IF \E i \in 1..Len(order) : order[i] = code THEN order ELSE Append(order, code)

\* update, lines 199-202: take the lock, create the entry of a new code,
\* merge the keyword arguments into the entry.
update(t) ==
    /\ pc[t] \in {"idle", "lora_update"}
    /\ pc[t] = "idle" => (t # MqttThread /\ extractedleft > 0)
    /\ LockFree(store_lock)
    /\ store_lock' = t
    /\ \E call \in UpdateCalls(t) :
        LET old == DictGet(instruments, call.code, EmptyDict)
        IN  /\ instruments' = DictSet(instruments, call.code, Merge(old, call.kw))
            /\ inst_order' = OrderAfter(inst_order, call.code)
            /\ heap' = call.objects
            /\ arg' = [arg EXCEPT ![t] = call.code]
            /\ kwargs' = [kwargs EXCEPT ![t] = call.kw]
            /\ before' = [before EXCEPT ![t] = old]
            /\ serial' = DictSet(serial, call.code,
                                  Merge(DictGet(serial, call.code, EmptyDict),
                                        ByValue(call.kw, call.objects)))
    /\ extractedleft' = IF pc[t] = "idle" THEN extractedleft - 1 ELSE extractedleft
    /\ call_time' = [call_time EXCEPT ![t] = now]
    /\ pc' = [pc EXCEPT ![t] = "upd_stamp"]
    /\ UNCHANGED <<now, current, sensor, seen, returned>>
    /\ UNCHANGED trackerOnly

\* update, line 203: the timestamp.
UpdateStamp(t) ==
    /\ pc[t] = "upd_stamp"
    /\ instruments' = [instruments EXCEPT ![arg[t]] = Stamp(@, now)]
    /\ serial' = [serial EXCEPT ![arg[t]] = Stamp(@, now)]
    /\ pc' = [pc EXCEPT ![t] = "upd_ret"]
    /\ UNCHANGED <<inst_order, heap, store_lock, now, kwargs, current, sensor, seen,
                   before, call_time, extractedleft, arg, returned>>
    /\ UNCHANGED trackerOnly

\* The return of update: the with-block ends.  When on_mqtt_message made
\* the call it is done with the message.
UpdateReturn(t) ==
    /\ pc[t] = "upd_ret"
    /\ store_lock' = NoThread
    /\ pc' = [pc EXCEPT ![t] = "idle"]
    /\ arg' = [arg EXCEPT ![t] = Nothing]
    /\ kwargs' = [kwargs EXCEPT ![t] = EmptyDict]
    /\ before' = [before EXCEPT ![t] = EmptyDict]
    /\ call_time' = [call_time EXCEPT ![t] = 0]
    /\ sensor' = [sensor EXCEPT ![t] = Nothing]
    /\ current' = [current EXCEPT ![t] = EmptyDict]
    /\ seen' = [seen EXCEPT ![t] = {}]
    /\ UNCHANGED <<instruments, serial, inst_order, heap, now, extractedleft, returned>>
    /\ UNCHANGED trackerOnly

\* get, lines 207-208: take the lock and copy the entry, {} for a code that
\* has none.  A client asks for any code, on_mqtt_message (line 305) for
\* the weather code.
get(t) ==
    /\ pc[t] \in {"idle", "lora_get"}
    /\ pc[t] = "idle" => t # MqttThread
    /\ LockFree(store_lock)
    /\ store_lock' = t
    /\ \E code \in StoreCodes :
        /\ pc[t] = "lora_get" => code = arg[t]
        /\ arg' = [arg EXCEPT ![t] = code]
        /\ returned' = [returned EXCEPT ![t] = Return("get", DictCopy(DictGet(instruments, code, EmptyDict)))]
    /\ pc' = [pc EXCEPT ![t] = "get_ret"]
    /\ UNCHANGED <<instruments, serial, inst_order, heap, now, kwargs, current, sensor, seen,
                   before, call_time, extractedleft>>
    /\ UNCHANGED trackerOnly

\* The return of get; on_mqtt_message binds the reading to `current`
\* (line 305).
GetReturn(t) ==
    /\ pc[t] = "get_ret"
    /\ store_lock' = NoThread
    /\ IF sensor[t] = Nothing
       THEN /\ pc' = [pc EXCEPT ![t] = "idle"]
            /\ arg' = [arg EXCEPT ![t] = Nothing]
            /\ UNCHANGED <<current, seen>>
       ELSE /\ pc' = [pc EXCEPT ![t] = "lora_set"]
            /\ current' = [current EXCEPT ![t] = ret[t]]
            /\ seen' = [seen EXCEPT ![t] =
                          IF "lora_sensors" \in DOMAIN ret[t]
                          THEN DOMAIN heap[ret[t]["lora_sensors"]] ELSE {}]
            /\ UNCHANGED arg
    /\ returned' = [returned EXCEPT ![t] = NoReturn]
    /\ UNCHANGED <<instruments, serial, inst_order, heap, now, kwargs, sensor,
                   before, call_time, extractedleft>>
    /\ UNCHANGED trackerOnly

\* get_all, lines 212-213: take the lock and copy every entry.
get_all(t) ==
    /\ pc[t] = "idle"
    /\ t # MqttThread
    /\ LockFree(store_lock)
    /\ store_lock' = t
    /\ returned' = [returned EXCEPT ![t] = Return("get_all", [k \in DOMAIN instruments |-> DictCopy(instruments[k])])]
    /\ pc' = [pc EXCEPT ![t] = "get_all_ret"]
    /\ UNCHANGED <<instruments, serial, inst_order, heap, now, kwargs, current, sensor, seen,
                   before, call_time, extractedleft, arg>>
    /\ UNCHANGED trackerOnly

\* get_combined, lines 217-247: take the lock and fold every entry.
get_combined(t) ==
    /\ pc[t] = "idle"
    /\ t # MqttThread
    /\ LockFree(store_lock)
    /\ store_lock' = t
    /\ returned' = [returned EXCEPT ![t] = Return("get_combined", FoldAll(CombinedDefaults, inst_order, instruments, heap))]
    /\ pc' = [pc EXCEPT ![t] = "get_combined_ret"]
    /\ UNCHANGED <<instruments, serial, inst_order, heap, now, kwargs, current, sensor, seen,
                   before, call_time, extractedleft, arg>>
    /\ UNCHANGED trackerOnly

\* The return of get_all and of get_combined.
SnapshotReturn(t) ==
    /\ pc[t] \in {"get_all_ret", "get_combined_ret"}
    /\ store_lock' = NoThread
    /\ pc' = [pc EXCEPT ![t] = "idle"]
    /\ returned' = [returned EXCEPT ![t] = NoReturn]
    /\ UNCHANGED <<instruments, serial, inst_order, heap, now, kwargs, current, sensor, seen,
                   before, call_time, extractedleft, arg>>
    /\ UNCHANGED trackerOnly

\* on_mqtt_message, lora branch, lines 302-305: a message of a LoRa sensor
\* arrives on the MQTT thread, which reaches the call of data_store.get.
on_mqtt_message(t) ==
    /\ t = MqttThread
    /\ pc[t] = "idle"
    /\ extractedleft > 0
    /\ \E sensor_id \in SensorIds : sensor' = [sensor EXCEPT ![t] = sensor_id]
    /\ arg' = [arg EXCEPT ![t] = INSTRUMENT_CODE_MQTT_WEATHER]
    /\ extractedleft' = extractedleft - 1
    /\ pc' = [pc EXCEPT ![t] = "lora_get"]
    /\ UNCHANGED <<instruments, serial, inst_order, heap, store_lock, now, kwargs, current,
                   seen, before, call_time, returned>>
    /\ UNCHANGED trackerOnly

\* on_mqtt_message, lines 306-311: take the lora_sensors object of the
\* reading, or a new one, set the sensor's entry in it, and reach the call
\* data_store.update(code, lora_sensors=lora_sensors).
LoraSet(t) ==
    /\ pc[t] = "lora_set"
    /\ LET fresh == Len(heap) + 1
           lora_sensors == LoraSensorsOf(current[t], fresh)
           objects == IF lora_sensors = fresh THEN Append(heap, EmptyDict) ELSE heap
       IN  /\ heap' = [objects EXCEPT ![lora_sensors] =
                          DictSet(@, sensor[t], [last_update |-> now])]
           /\ kwargs' = [kwargs EXCEPT ![t] = DictSet(EmptyDict, "lora_sensors", lora_sensors)]
    /\ pc' = [pc EXCEPT ![t] = "lora_update"]
    /\ UNCHANGED <<instruments, serial, inst_order, store_lock, now, current, sensor, seen,
                   before, call_time, extractedleft, arg, returned>>
    /\ UNCHANGED trackerOnly

\* Time passes.
Tick ==
    /\ now < MaxTime
    /\ now' = now + 1
    /\ UNCHANGED <<instruments, serial, inst_order, heap, store_lock, kwargs, current, sensor, seen,
                   before, call_time, extractedleft, pc, arg, returned>>
    /\ UNCHANGED trackerOnly

----------------------------------------------------------------------------
(* The device readers: read_sqm_device, read_weatherlink_device and        *)
(* read_cloudwatcher_device, one thread per configured device.             *)
(*                                                                         *)
(* An instrument code f"{prefix}-{suffix}" is the pair <<prefix, suffix>>. *)
(* A reader's calls of data_store.update and health_tracker.record_* are   *)
(* taken as single steps with the effect of the whole method: the methods  *)
(* run under the locks of the store and of the tracker.                    *)

\* The configured devices (get_device_configs): two SQM-LE units, a
\* WeatherLink Live and a Cloudwatcher.
Devices == {"sqm1", "sqm2", "davis1", "cw1"}

\* The prefix of the codes of a device's reader.
Kind(d) ==
    CASE d \in {"sqm1", "sqm2"} -> "sqm"
      [] d = "davis1" -> "davis"
      [] d = "cw1" -> "cw"

\* device_config["host"].
Host(d) ==
    CASE d = "sqm1" -> "192.168.1.5"
      [] d = "sqm2" -> "192.168.1.6"
      [] d = "davis1" -> "192.168.1.7"
      [] d = "cw1" -> "192.168.1.8"

\* host.replace('.', '-')
HostDashed(host) ==
    CASE host = "192.168.1.5" -> "192-168-1-5"
      [] host = "192.168.1.6" -> "192-168-1-6"
      [] host = "192.168.1.7" -> "192-168-1-7"
      [] host = "192.168.1.8" -> "192-168-1-8"

\* Number of steps the device readers take in one run.
MaxPolls == 5

\* The None that a lookup of the hardware id returns.
NoId == "no-id"

\* The request of the lookup fails: the device does not answer.
Unreachable == "unreachable"

\* What a device can answer to the lookup of its hardware id: nothing
\* usable, or an id as the device writes it.
Answers(kind) ==
    CASE kind = "sqm" -> {NoId, "00041", "00413"}
      [] kind = "davis" -> {NoId, "242"}
      [] kind = "cw" -> {NoId, "0927", Unreachable}

\* parts[4].strip().lstrip("0") or "0", line 459.
LStripZeros(raw) ==
    CASE raw = "00041" -> "41"
      [] raw = "00413" -> "413"
      [] raw = "0927" -> "927"
      [] raw = "0" -> "0"
      [] OTHER -> raw

\* What the lookup returns for an answer: get_sqm_serial strips the leading
\* zeros (line 459), the lsid (line 613, str(lsid) at 576) and
\* get_cloudwatcher_serial (line 693) give the id as it is; a request that
\* fails gives None (lines 695-697).
LookupResult(kind, answer) ==
    IF answer \in {NoId, Unreachable} THEN NoId
    ELSE IF kind = "sqm" THEN LStripZeros(answer) ELSE answer

\* Lines 474, 590, 707: the code derived from the address.
AddressCode(d) == <<Kind(d), HostDashed(Host(d))>>

\* Lines 490, 615, 719: the code derived from the hardware id.
HardwareCode(kind, id) == <<kind, id>>

\* Lines 487, 610, 716: `if not serial_obtained:`.
NeedsLookupAlways(obtained) == TRUE

NeedsLookup(obtained) == ~obtained

\* Lines 489-494, 614-620, 718-722: the code after a lookup that returned id.
ResolvedCodeKeepsCurrent(kind, code, id) == code

ResolvedCode(kind, code, id) ==
    IF id # NoId THEN HardwareCode(kind, id) ELSE code

\* The value of serial_obtained after a lookup that returned id: the SQM
\* reader sets it only with an id (line 491), the WeatherLink reader with
\* an id (616) and without (621), the Cloudwatcher reader always (723).
ObtainedAfterLookup(kind, obtained, id) ==
    IF kind = "sqm" THEN obtained \/ id # NoId ELSE TRUE

\* The keyword arguments of a reader's update (lines 521-525, 654, 777).
ReaderKwargs(kind) ==
    CASE kind = "sqm" -> [sky_quality |-> 21, sqm_temperature |-> None]
      [] kind = "davis" -> [temperature |-> 20]
      [] kind = "cw" -> [ambient_temp |-> 12]

\* self._instruments after data_store.update(code, **kw), lines 199-203.
Updated(code, kw) ==
    DictSet(instruments, code, Stamp(Merge(DictGet(instruments, code, EmptyDict), kw), now))

\* self._history after record_success / record_failure, lines 126-131 and
\* 135-140.
RecordedEverywhere(code, success) ==
    [c \in DOMAIN history \cup {code} |-> Trim(Append(HistoryGet(history, c), success))]

RecordedTwice(code, success) ==
    DictSet(history, code, Trim(Append(Append(HistoryGet(history, code), success), success)))

Recorded(code, success) ==
    DictSet(history, code, Trim(Append(HistoryGet(history, code), success)))

\* The outcomes of one poll: "ok" is a reading that is stored and recorded
\* as a success, "bad" a response without data, recorded as a failure,
\* "error" an exception, recorded as a failure in the except clause.
Outcomes == {"ok", "bad", "error"}

\* The updates dict that the WeatherLink reader (623-650) and the
\* Cloudwatcher reader (735-773) extract from a response: nothing when the
\* response has none of the fields they know, else the fields it has.
Extractions(kind) == {EmptyDict, ReaderKwargs(kind)}

\* `if updates:` (lines 652, 775): how a poll ends that has extracted
\* updates without an exception.
PollOutcomeAlwaysOk(extracted) == "ok"

PollOutcome(extracted) == IF extracted # EmptyDict THEN "ok" ELSE "bad"

\* The end of a poll attempt as the history variable polls notes it.
Attempt(end, extracted) == [end |-> end, updates |-> extracted]

\* The calls of the store and of the tracker that end a poll with the given
\* outcome (lines 521-542, 652-666, 775-789), all under code; updates are
\* the keyword arguments of the update.
ReaderWrites(d, code, outcome, extracted) ==
    /\ IF outcome = "ok"
       THEN /\ instruments' = Updated(code, extracted)
            /\ inst_order' = IF code \in DOMAIN instruments THEN inst_order
                              ELSE Append(inst_order, code)
            /\ writes' = [writes EXCEPT ![d] = Append(Append(@, code), code)]
       ELSE /\ UNCHANGED <<instruments, inst_order>>
            /\ writes' = [writes EXCEPT ![d] = Append(@, code)]
    /\ history' = Recorded(code, outcome = "ok")
    /\ polls' = [polls EXCEPT ![d] =
                    Append(@, Attempt(outcome, IF outcome = "error" THEN EmptyDict
                                               ELSE extracted))]

\* The lookup of the hardware id with the device's answer: the locals of
\* the reader after it, and what the history variables note of it.
Lookup(d, answer) ==
    LET id == LookupResult(Kind(d), answer)
        code == ResolvedCode(Kind(d), instrument_code[d], id)
    IN  /\ instrument_code' = [instrument_code EXCEPT ![d] = code]
        /\ serial_obtained' = [serial_obtained EXCEPT ![d] = ObtainedAfterLookup(Kind(d), @, id)]
        /\ resolved_id' = [resolved_id EXCEPT ![d] =
                              IF @ = NoId THEN id ELSE @]
        /\ lookup_failed' = [lookup_failed EXCEPT ![d] = @ \/ id = NoId]
        /\ lookups' = [lookups EXCEPT ![d] = Append(@, id)]
        /\ promoted_at' = [promoted_at EXCEPT ![d] =
                              IF @ = -1 /\ id # NoId THEN Len(writes[d]) ELSE @]

NoLookup == UNCHANGED <<instrument_code, serial_obtained, resolved_id, lookup_failed,
                        promoted_at, lookups>>

\* self._history after the lookup that read_sqm_device makes on a new
\* connection returned id (lines 487-494): get_sqm_serial returns None for
\* whatever went wrong (443, 461-464) and neither branch calls the tracker.
AfterLookupFailureRecorded(h, code, id) ==
    IF id = NoId THEN DictSet(h, code, Trim(Append(HistoryGet(h, code), FALSE))) ELSE h

AfterLookup(h, code, id) == h

\* What no reader touches.
readerFrame == <<tracker_lock, pc, arg, tmp, keys, statuses, returned, recorded, quota,
                 heap, store_lock, now, kwargs, current, sensor, seen, before,
                 call_time, extractedleft, serial, classifyVars, loopVars>>

\* read_sqm_device, lines 481-494 and 535-542: a turn of the outer loop.
\* The connection fails and the failure is recorded under the current code,
\* or it succeeds and, with serial_obtained false, get_sqm_serial is called.
SqmConnect(d) ==
    /\ Kind(d) = "sqm"
    /\ ~connected[d]
    /\ polls_left > 0
    /\ polls_left' = polls_left - 1
    /\ \/ /\ ReaderWrites(d, instrument_code[d], "error", EmptyDict)
          /\ NoLookup
          /\ UNCHANGED <<connected, reached>>
       \/ /\ connected' = [connected EXCEPT ![d] = TRUE]
          /\ reached' = [reached EXCEPT ![d] = TRUE]
          /\ IF NeedsLookup(serial_obtained[d])
             THEN \E answer \in Answers(Kind(d)) :
                    /\ Lookup(d, answer)
                    /\ history' = AfterLookup(history, instrument_code'[d],
                                               LookupResult(Kind(d), answer))
             ELSE /\ NoLookup
                  /\ UNCHANGED history
          /\ UNCHANGED <<instruments, inst_order, writes, polls>>
    /\ UNCHANGED readerFrame

\* read_sqm_device, lines 496-542: a turn of the inner loop.  An exception
\* leaves the with-block, which closes the connection.
SqmPoll(d) ==
    /\ Kind(d) = "sqm"
    /\ connected[d]
    /\ polls_left > 0
    /\ polls_left' = polls_left - 1
    /\ \E outcome \in Outcomes :
        /\ ReaderWrites(d, instrument_code[d], outcome,
                        IF outcome = "ok" THEN ReaderKwargs(Kind(d)) ELSE EmptyDict)
        /\ connected' = [connected EXCEPT ![d] = outcome # "error"]
    /\ NoLookup
    /\ UNCHANGED reached
    /\ UNCHANGED readerFrame

read_sqm_device(d) == SqmConnect(d) \/ SqmPoll(d)

\* read_weatherlink_device, lines 597-668: a turn of the loop.  The request
\* fails (661-666), or the response carries an error field and the turn
\* ends with nothing recorded (602-605), or the conditions are read: the
\* lsid is looked up in them when lsid_obtained is false, and the turn ends
\* with an update and a success, a failure for no data, or an exception.
read_weatherlink_device(d) ==
    /\ Kind(d) = "davis"
    /\ polls_left > 0
    /\ polls_left' = polls_left - 1
    /\ \/ /\ ReaderWrites(d, instrument_code[d], "error", EmptyDict)
          /\ NoLookup
          /\ UNCHANGED reached
       \/ /\ UNCHANGED <<instruments, inst_order, history, writes>>
          /\ polls' = [polls EXCEPT ![d] = Append(@, Attempt("error_field", EmptyDict))]
          /\ NoLookup
          /\ reached' = [reached EXCEPT ![d] = TRUE]
       \/ /\ IF NeedsLookup(serial_obtained[d])
             THEN \E answer \in Answers(Kind(d)) : Lookup(d, answer)
             ELSE NoLookup
          /\ \E extracted \in Extractions(Kind(d)), raised \in BOOLEAN :
                ReaderWrites(d, instrument_code'[d],
                             IF raised THEN "error" ELSE PollOutcome(extracted), extracted)
          /\ reached' = [reached EXCEPT ![d] = TRUE]
    /\ UNCHANGED connected
    /\ UNCHANGED readerFrame

\* read_cloudwatcher_device, lines 714-791: a turn of the loop.  With
\* serial_obtained false get_cloudwatcher_serial is called first; then the
\* data is requested and the turn ends with an update and a success, a
\* failure for no data, or an exception.  The device has been reached when
\* the request of the lookup was answered or that of the data was.
read_cloudwatcher_device(d) ==
    /\ Kind(d) = "cw"
    /\ polls_left > 0
    /\ polls_left' = polls_left - 1
    /\ \E extracted \in Extractions(Kind(d)), raised \in BOOLEAN :
        /\ IF NeedsLookup(serial_obtained[d])
           THEN \E answer \in Answers(Kind(d)) :
                    /\ Lookup(d, answer)
                    /\ reached' = [reached EXCEPT ![d] =
                                      @ \/ answer # Unreachable \/ ~raised]
           ELSE /\ NoLookup
                /\ reached' = [reached EXCEPT ![d] = @ \/ ~raised]
        /\ ReaderWrites(d, instrument_code'[d],
                        IF raised THEN "error" ELSE PollOutcome(extracted), extracted)
    /\ UNCHANGED connected
    /\ UNCHANGED readerFrame

----------------------------------------------------------------------------
(* The Cloudwatcher handlers: the classifiers and the two places that      *)
(* build `updates` from a message, the CGI reader and the MQTT handler.    *)
(* Temperatures and mpsas values are in tenths, so that the thresholds     *)
(* -25, -15, 18 and 10 are -250, -150, 180 and 100.                        *)

\* The keys of CONFIG, lines 69-88.
CONFIG_KEYS ==
    {"remote_api", "api_key", "mqtt_broker", "mqtt_port", "allsky_image_path",
     "allsky_image_url", "push_interval", "bom_satellite_enabled",
     "bom_satellite_interval", "bom_radar_station", "log_level", "sqm_devices",
     "davis_devices", "cloudwatcher_devices", "instrument_code_mqtt_weather",
     "instrument_code_allsky"}

\* The values of the fields of a message: clouds (sky temperature) and temp
\* (ambient temperature) in tenths of a degree, rain (the sensor's reading)
\* and lightmpsas in tenths.
CloudsValues == {-400, -300, -251, -250, -249, -200, -151, -150, -149, -50}
TempValues == {-100, 0, 100}
RainValues == {0, 500, 1499, 1500, 1501, 1600, 2499, 2500, 2501, 2600}
MpsasValues == {50, 99, 100, 101, 179, 180, 181, 210}

\* Lines 393-400.
classify_cloud_condition_le(sky_temp, ambient_temp) ==
    LET delta == sky_temp - ambient_temp
    IN  IF delta <= -250 THEN "Clear"
        ELSE IF delta <= -150 THEN "Cloudy"
        ELSE "VeryCloudy"

classify_cloud_condition(sky_temp, ambient_temp) ==
    LET delta == sky_temp - ambient_temp
    IN  IF delta < -250 THEN "Clear"
        ELSE IF delta < -150 THEN "Cloudy"
        ELSE "VeryCloudy"

\* Lines 414-420.
classify_rain_condition_ge(rain_sensor) ==
    IF rain_sensor >= 2500 THEN "Dry"
    ELSE IF rain_sensor >= 1500 THEN "Wet"
    ELSE "Rain"

classify_rain_condition(rain_sensor) ==
    IF rain_sensor > 2500 THEN "Dry"
    ELSE IF rain_sensor > 1500 THEN "Wet"
    ELSE "Rain"

\* Lines 761-767, the CGI reader's day condition from lightmpsas.
CgiDayCondition(mpsas) ==
    IF mpsas > 180 THEN "Dark"
    ELSE IF mpsas > 100 THEN "Light"
    ELSE "VeryLight"

\* Lines 349-355, the MQTT handler's day condition from lightmpsas.
MqttDayCondition(light_mpsas) ==
    IF light_mpsas > 180 THEN "Dark"
    ELSE IF light_mpsas > 100 THEN "Light"
    ELSE "VeryLight"

\* Lines 402-411, the wind speed in tenths.
classify_wind_condition(wind_speed) ==
    IF wind_speed = None THEN "Unknown"
    ELSE IF wind_speed < 100 THEN "Calm"
    ELSE IF wind_speed < 300 THEN "Windy"
    ELSE "VeryWindy"

\* `if cond: updates[key] = value`: what the statement adds to updates.
Field(cond, key, value) == IF cond THEN key :> value ELSE EmptyDict

\* The if / elif that sets a condition label (lines 744-749, 752-755,
\* 758-767, 770-773 and 326-332, 337-340, 345-355, 360-363): from the flag
\* when the handler takes the message to carry it, else from the raw
\* measurement when the message carries that, else the key is not set.
ConditionComputedFirst(key, has_flag, flag_label, has_raw, computed) ==
    IF has_raw THEN key :> computed
    ELSE IF has_flag THEN key :> flag_label
    ELSE EmptyDict

Condition(key, has_flag, flag_label, has_raw, computed) ==
    IF has_flag THEN key :> flag_label
    ELSE IF has_raw THEN key :> computed
    ELSE EmptyDict

\* read_cloudwatcher_device, lines 735-773: updates for the parsed response
\* d, a dict of the keys the response carries (`"clouds" in data`).  A flag
\* is the string after the `=`, safe when it is "1".
CgiUpdates(d) ==
    LET Has(k) == k \in DOMAIN d
        clouds == DictGet(d, "clouds", None)
        temp == DictGet(d, "temp", None)
    IN  Field(Has("clouds"), "sky_temp", clouds)
        @@ Field(Has("temp"), "ambient_temp", temp)
        @@ Condition("cloud_condition", Has("cloudsSafe"),
                     IF DictGet(d, "cloudsSafe", "") = "1" THEN "Clear" ELSE "Cloudy",
                     Has("clouds") /\ Has("temp"),
                     classify_cloud_condition(clouds, temp))
        @@ Condition("rain_condition", Has("rainSafe"),
                     IF DictGet(d, "rainSafe", "") = "1" THEN "Dry" ELSE "Rain",
                     Has("rain"),
                     classify_rain_condition(DictGet(d, "rain", None)))
        @@ Condition("day_condition", Has("lightSafe"),
                     IF DictGet(d, "lightSafe", "") = "1" THEN "Dark" ELSE "Light",
                     Has("lightmpsas"),
                     CgiDayCondition(DictGet(d, "lightmpsas", None)))
        @@ Condition("wind_condition", Has("windSafe"),
                     IF DictGet(d, "windSafe", "") = "1" THEN "Calm" ELSE "Windy",
                     Has("wind"),
                     classify_wind_condition(DictGet(d, "wind", None)))

\* The truth value of a flag read with payload.get(key, ""): `if flag:`.
Truthy(flag) == flag # ""

\* on_mqtt_message, lines 313-372, for the payload: line 314 reads
\* CONFIG["instrument_code_cloudwatcher"]; for a key that CONFIG lacks this
\* raises KeyError, the except clause of line 371 logs it and the handler
\* returns with no updates made.  With the key, lines 315-363: a raw field
\* is payload.get(key), None without the key; a flag is
\* payload.get(key, ""), taken as carried when it is not empty and safe
\* when it is "Safe".
MqttUpdates(payload) ==
    IF "instrument_code_cloudwatcher" \in CONFIG_KEYS
    THEN LET sky_temp == DictGet(payload, "clouds", None)
             ambient_temp == DictGet(payload, "temp", None)
             clouds_safe == DictGet(payload, "cloudsSafe", "")
             rain_safe == DictGet(payload, "rainSafe", "")
             rain_val == DictGet(payload, "rain", None)
             light_safe == DictGet(payload, "lightSafe", "")
             light_mpsas == DictGet(payload, "lightmpsas", None)
             wind_safe == DictGet(payload, "windSafe", "")
             wind_val == DictGet(payload, "wind", None)
         IN  Field(sky_temp # None, "sky_temp", sky_temp)
             @@ Field(ambient_temp # None, "ambient_temp", ambient_temp)
             @@ Condition("cloud_condition", Truthy(clouds_safe),
                          IF clouds_safe = "Safe" THEN "Clear" ELSE "Cloudy",
                          sky_temp # None /\ ambient_temp # None,
                          classify_cloud_condition(sky_temp, ambient_temp))
             @@ Condition("rain_condition", Truthy(rain_safe),
                          IF rain_safe = "Safe" THEN "Dry" ELSE "Rain",
                          rain_val # None,
                          classify_rain_condition(rain_val))
             @@ Condition("day_condition", Truthy(light_safe),
                          IF light_safe = "Safe" THEN "Dark" ELSE "Light",
                          light_mpsas # None,
                          MqttDayCondition(light_mpsas))
             @@ Condition("wind_condition", Truthy(wind_safe),
                          IF wind_safe = "Safe" THEN "Calm" ELSE "Windy",
                          wind_val # None,
                          classify_wind_condition(wind_val))
    ELSE EmptyDict

\* How the cloudwatcher branch of on_mqtt_message ends for a payload: with
\* the call of data_store.update, without it when `updates` is empty, or in
\* the except clause of line 370 when line 314 raises KeyError.
MqttEnds(payload) ==
    IF "instrument_code_cloudwatcher" \notin CONFIG_KEYS THEN "error"
    ELSE IF MqttUpdates(payload) # EmptyDict THEN "update"
    ELSE "none"

\* What the handlers of a Cloudwatcher message leave alone.
classifyFrame == <<history, tracker_lock, pc, arg, tmp, keys, statuses, returned, recorded,
                   quota, instruments, inst_order, heap, store_lock, now, kwargs,
                   current, sensor, seen, before, call_time, extractedleft, serial,
                   readerVars, loopVars>>

\* The CGI reader handles the message.
CgiClassify ==
    /\ handler = Nothing
    /\ updates' = CgiUpdates(msg)
    /\ handler' = "cgi"
    /\ UNCHANGED msg
    /\ UNCHANGED classifyFrame

\* The MQTT handler handles the message.
MqttClassify ==
    /\ handler = Nothing
    /\ updates' = MqttUpdates(msg)
    /\ handler' = "mqtt"
    /\ UNCHANGED msg
    /\ UNCHANGED classifyFrame

----------------------------------------------------------------------------
(* The specifications.                                                     *)

InitLocals ==
    /\ pc = [t \in Threads |-> "idle"]
    /\ arg = [t \in Threads |-> Nothing]
    /\ tmp = [t \in Threads |-> <<>>]
    /\ keys = [t \in Threads |-> {}]
    /\ statuses = [t \in Threads |-> <<>>]
    /\ returned = [t \in Threads |-> NoReturn]
    /\ kwargs = [t \in Threads |-> EmptyDict]
    /\ current = [t \in Threads |-> EmptyDict]
    /\ sensor = [t \in Threads |-> Nothing]
    /\ seen = [t \in Threads |-> {}]
    /\ before = [t \in Threads |-> EmptyDict]
    /\ call_time = [t \in Threads |-> 0]

\* InstrumentHealthTracker.__init__, lines 120-122.
InitTracker ==
    /\ history = <<>>
    /\ tracker_lock = NoThread
    /\ recorded = [c \in Codes |-> <<>>]

\* MultiInstrumentDataStore.__init__, lines 193-195.
InitStore ==
    /\ instruments = EmptyDict
    /\ inst_order = <<>>
    /\ heap = <<>>
    /\ store_lock = NoThread
    /\ now = 1
    /\ serial = EmptyDict

\* The locals of the device readers at their start, lines 474-475, 590-591
\* and 707-708.
InitReaders ==
    /\ instrument_code = [d \in Devices |-> AddressCode(d)]
    /\ serial_obtained = [d \in Devices |-> FALSE]
    /\ connected = [d \in Devices |-> FALSE]
    /\ writes = [d \in Devices |-> <<>>]
    /\ promoted_at = [d \in Devices |-> -1]
    /\ resolved_id = [d \in Devices |-> NoId]
    /\ reached = [d \in Devices |-> FALSE]
    /\ polls = [d \in Devices |-> <<>>]
    /\ lookups = [d \in Devices |-> <<>>]
    /\ lookup_failed = [d \in Devices |-> FALSE]

\* ---------------------------------------------------------------------
\* The loops of the reader threads and of the heartbeat thread, one step per
\* blocking call: the network call, the wait for a lock, the body of the
\* `with self._lock` block, the sleep.

LoopDevices == {"sqm1", "cw1"}
Heartbeat == "heartbeat"
LoopThreads == LoopDevices \cup {Heartbeat}
\* The devices that can be reached over the network; the SQM meter is off.
Reachable == {"cw1"}

\* The loop's code variable before any iteration of `for code in ...`.
NoCode == <<>>

\* The double that failures / length is, as the fraction in lowest terms:
\* two quotients are the same double exactly when these are equal.
RECURSIVE Gcd(_, _)
Gcd(a, b) == IF b = 0 THEN a ELSE Gcd(b, a % b)

Quotient(rate) ==
    IF rate[1] = 0 THEN <<0, 1>>
    ELSE <<rate[1] \div Gcd(rate[1], rate[2]), rate[2] \div Gcd(rate[1], rate[2])>>

\* The payload of a heartbeat, its instruments and instrument_health; no
\* heartbeat has been built before the first.
Payload(active_instruments, instrument_health) ==
    [instruments |-> active_instruments, instrument_health |-> instrument_health]

NoPayload == Payload({}, EmptyDict)

\* The threads at their start: every reader before its first network call,
\* the heartbeat before its first report.
InitLoop ==
    /\ phase = [d \in Devices |-> "io"]
    /\ pending = [d \in Devices |-> "none"]
    /\ hb = [phase |-> "sleep", codes |-> {}, code |-> NoCode, status |-> Nothing,
             enough |-> FALSE,
             instrument_health |-> EmptyDict, payload |-> NoPayload]

\* The lock once the `with self._lock` block of thread t has ended.
ReleasedNever(t) == t

Released(t) == NoThread

\* Whether the reader goes around its `while True` after an attempt that
\* ended with `outcome`: every except clause ends in a sleep, none returns
\* or raises.
LoopStopsOnError(outcome) == outcome # "error"

LoopContinues(outcome) == TRUE

\* The network call of the reader returns: with a response, or with an
\* exception at the latest when its timeout expires.
ReaderIo(d) ==
    /\ phase[d] = "io"
    /\ pending' = [pending EXCEPT ![d] = IF answering[d] THEN "ok" ELSE "error"]
    /\ phase' = [phase EXCEPT ![d] =
                    IF answering[d] THEN "want_update" ELSE "want_record"]
    /\ UNCHANGED <<history, tracker_lock, instruments, inst_order, store_lock, hb,
                   answering>>

\* data_store.update(...) enters its `with self._lock` block.
ReaderUpdateEnter(d) ==
    /\ phase[d] = "want_update"
    /\ LockFree(store_lock)
    /\ store_lock' = d
    /\ phase' = [phase EXCEPT ![d] = "updating"]
    /\ UNCHANGED <<history, tracker_lock, instruments, inst_order, pending, hb,
                   answering>>

\* data_store.update returning with the store lock still held.
ReaderUpdateExitHolding(d) ==
    /\ phase[d] = "updating"
    /\ instruments' = Updated(instrument_code[d], ReaderKwargs(Kind(d)))
    /\ inst_order' = IF instrument_code[d] \in DOMAIN instruments THEN inst_order
                     ELSE Append(inst_order, instrument_code[d])
    /\ phase' = [phase EXCEPT ![d] = "want_record"]
    /\ UNCHANGED <<history, tracker_lock, store_lock, pending, hb, answering>>

\* The body of data_store.update and the end of its block.
ReaderUpdateExit(d) ==
    /\ phase[d] = "updating"
    /\ instruments' = Updated(instrument_code[d], ReaderKwargs(Kind(d)))
    /\ inst_order' = IF instrument_code[d] \in DOMAIN instruments THEN inst_order
                     ELSE Append(inst_order, instrument_code[d])
    /\ store_lock' = Released(d)
    /\ phase' = [phase EXCEPT ![d] = "want_record"]
    /\ UNCHANGED <<history, tracker_lock, pending, hb, answering>>

\* health_tracker.record_success / record_failure enters its block.
ReaderRecordEnter(d) ==
    /\ phase[d] = "want_record"
    /\ LockFree(tracker_lock)
    /\ tracker_lock' = d
    /\ phase' = [phase EXCEPT ![d] = "recording"]
    /\ UNCHANGED <<history, instruments, inst_order, store_lock, pending, hb,
                   answering>>

\* The body of record_success / record_failure and the end of its block;
\* the reader then sleeps.
ReaderRecordExit(d) ==
    /\ phase[d] = "recording"
    /\ history' = Recorded(instrument_code[d], pending[d] = "ok")
    /\ tracker_lock' = Released(d)
    /\ phase' = [phase EXCEPT ![d] = "sleep"]
    /\ UNCHANGED <<instruments, inst_order, store_lock, pending, hb, answering>>

\* time.sleep returns and the loop goes around.
ReaderWake(d) ==
    /\ phase[d] = "sleep"
    /\ LoopContinues(pending[d])
    /\ phase' = [phase EXCEPT ![d] = "io"]
    /\ pending' = [pending EXCEPT ![d] = "none"]
    /\ UNCHANGED <<history, tracker_lock, instruments, inst_order, store_lock, hb,
                   answering>>

ReaderLoopStep(d) ==
    \/ ReaderIo(d)
    \/ ReaderUpdateEnter(d)
    \/ ReaderUpdateExit(d)
    \/ ReaderRecordEnter(d)
    \/ ReaderRecordExit(d)
    \/ ReaderWake(d)

\* push_heartbeat: data_store.get_all() enters its block.
HbGetAllEnter ==
    /\ hb.phase = "sleep"
    /\ LockFree(store_lock)
    /\ store_lock' = Heartbeat
    /\ hb' = [hb EXCEPT !.phase = "get_all"]
    /\ UNCHANGED <<history, tracker_lock, instruments, inst_order, phase, pending,
                   answering>>

\* get_all returns a copy of the instruments; the loop over their codes
\* starts.
HbGetAllExit ==
    /\ hb.phase = "get_all"
    /\ store_lock' = Released(Heartbeat)
    /\ hb' = [hb EXCEPT !.phase = "loop", !.codes = DOMAIN instruments,
                         !.instrument_health = EmptyDict]
    /\ UNCHANGED <<history, tracker_lock, instruments, inst_order, phase, pending,
                   answering>>

\* health_tracker.get_status(code) enters its block for the next code.
HbStatusEnter ==
    /\ hb.phase = "loop"
    /\ LockFree(tracker_lock)
    /\ \E code \in hb.codes :
          hb' = [hb EXCEPT !.phase = "get_status", !.code = code,
                           !.codes = @ \ {code}]
    /\ tracker_lock' = Heartbeat
    /\ UNCHANGED <<history, instruments, inst_order, store_lock, phase, pending,
                   answering>>

HbStatusExit ==
    /\ hb.phase = "get_status"
    /\ tracker_lock' = Released(Heartbeat)
    /\ hb' = [hb EXCEPT !.phase = "want_rate",
                         !.status = Status(HistoryGet(history, hb.code)),
                         !.enough = Len(HistoryGet(history, hb.code)) >= MIN_READINGS]
    /\ UNCHANGED <<history, instruments, inst_order, store_lock, phase, pending,
                   answering>>

\* health_tracker.get_failure_rate(code) enters its block.
HbRateEnter ==
    /\ hb.phase = "want_rate"
    /\ LockFree(tracker_lock)
    /\ tracker_lock' = Heartbeat
    /\ hb' = [hb EXCEPT !.phase = "get_failure_rate"]
    /\ UNCHANGED <<history, instruments, inst_order, store_lock, phase, pending,
                   answering>>

HbRateExit ==
    /\ hb.phase = "get_failure_rate"
    /\ tracker_lock' = Released(Heartbeat)
    /\ hb' = [hb EXCEPT !.phase = "loop", !.code = NoCode, !.status = Nothing,
                         !.enough = FALSE,
                         !.instrument_health =
                             DictSet(@, hb.code,
                                     [status |-> hb.status,
                                      failure_rate |->
                                          Quotient(FailureRate(HistoryGet(history, hb.code)))])]
    /\ UNCHANGED <<history, instruments, inst_order, store_lock, phase, pending,
                   answering>>

\* The loop over the codes has ended: the payload is built and posted, then
\* time.sleep.
HbPost ==
    /\ hb.phase = "loop"
    /\ hb.codes = {}
    /\ hb' = [hb EXCEPT !.phase = "sleep",
                         !.payload = Payload(DOMAIN hb.instrument_health,
                                             hb.instrument_health)]
    /\ UNCHANGED <<history, tracker_lock, instruments, inst_order, store_lock, phase,
                   pending, answering>>

push_heartbeat ==
    \/ HbGetAllEnter
    \/ HbGetAllExit
    \/ HbStatusEnter
    \/ HbStatusExit
    \/ HbRateEnter
    \/ HbRateExit
    \/ HbPost

\* A device that answered stops answering: from now on every call to it
\* ends in an exception.
DeviceStops(d) ==
    /\ answering[d]
    /\ answering' = [answering EXCEPT ![d] = FALSE]
    /\ UNCHANGED <<history, tracker_lock, instruments, inst_order, store_lock, phase,
                   pending, hb>>

\* What the loops leave alone.
loopFrame == <<pc, arg, tmp, keys, statuses, returned, recorded, quota, heap, now,
               kwargs, current, sensor, seen, before, call_time, extractedleft, serial,
               readerVars, classifyVars>>

\* No Cloudwatcher message has been handled.
InitHandlers ==
    /\ updates = EmptyDict
    /\ handler = Nothing

\* A Cloudwatcher message.
Messages ==
    [clouds : CloudsValues, temp : TempValues, rain : RainValues,
     lightmpsas : MpsasValues]

\* In the models of the tracker, the store and the readers no Cloudwatcher
\* message arrives; one is at hand all the same.
InitNoMessage ==
    /\ InitHandlers
    /\ msg = [clouds |-> -300, temp |-> 0, rain |-> 2600, lightmpsas |-> 210]

\* The tracker under calls from the reader threads.
Init ==
    /\ InitTracker
    /\ InitStore
    /\ InitLocals
    /\ InitReaders
    /\ InitNoMessage
    /\ polls_left = 0
    /\ InitLoop
    /\ answering = [d \in Devices |-> FALSE]
    /\ quota = MaxRecords
    /\ extractedleft = 0

InitFair ==
    /\ InitTracker
    /\ InitStore
    /\ InitLocals
    /\ InitReaders
    /\ InitNoMessage
    /\ polls_left = 0
    /\ InitLoop
    /\ answering = [d \in Devices |-> FALSE]
    /\ quota = MaxRecordsFair
    /\ extractedleft = 0

TrackerStep(t) ==
    \/ record_success(t)
    \/ record_failure(t)
    \/ RecordSlice(t)
    \/ RecordStore(t)
    \/ get_status(t)
    \/ GetStatusReturn(t)
    \/ get_failure_rate(t)
    \/ GetFailureRateReturn(t)
    \/ get_all_statuses(t)
    \/ GetAllStatusesIter(t)
    \/ GetAllStatusesReturn(t)

Next == \E t \in TrackerThreads : TrackerStep(t)

Spec == Init /\ [][Next]_vars

\* Fair scheduling: a thread that can take a step eventually takes one.
FairSpec == InitFair /\ [][Next]_vars /\ \A t \in TrackerThreads : WF_vars(TrackerStep(t))

\* Number of outcomes recorded in one run of the model of the window.
MaxWindowRecords == 10

\* n outcomes, all of them v.
Repeat(v, n) == [i \in 1..n |-> v]

\* Histories that record calls leave behind: none, a full window of
\* failures, a full window of successes, and a short mixed one.
Windows ==
    {<<>>} \cup
    {"sqm-41" :> w : w \in {Repeat(FALSE, WINDOW_SIZE), Repeat(TRUE, WINDOW_SIZE),
                            <<TRUE, FALSE, FALSE, FALSE>>}}

\* The tracker under the calls of one thread, from each of these histories.
WindowInit ==
    /\ history \in Windows
    /\ tracker_lock = NoThread
    /\ recorded = [c \in Codes |-> HistoryGet(history, c)]
    /\ InitStore
    /\ InitLocals
    /\ InitReaders
    /\ InitNoMessage
    /\ polls_left = 0
    /\ InitLoop
    /\ answering = [d \in Devices |-> FALSE]
    /\ quota = MaxWindowRecords
    /\ extractedleft = 0

WindowNext == \E t \in {"reader1"} : TrackerStep(t)

WindowSpec == WindowInit /\ [][WindowNext]_vars

\* The store under calls from a reader thread and the MQTT thread.
StoreInit ==
    /\ InitTracker
    /\ InitStore
    /\ InitLocals
    /\ InitReaders
    /\ InitNoMessage
    /\ polls_left = 0
    /\ InitLoop
    /\ answering = [d \in Devices |-> FALSE]
    /\ quota = 0
    /\ extractedleft = MaxUpdates

StoreStep(t) ==
    \/ update(t)
    \/ UpdateStamp(t)
    \/ UpdateReturn(t)
    \/ get(t)
    \/ GetReturn(t)
    \/ get_all(t)
    \/ get_combined(t)
    \/ SnapshotReturn(t)
    \/ on_mqtt_message(t)
    \/ LoraSet(t)

StoreNext ==
    \/ \E t \in StoreThreads : StoreStep(t)
    \/ Tick

StoreSpec == StoreInit /\ [][StoreNext]_vars

\* A field that an entry does not hold.
Absent == 0

\* The entry with the given timestamp and, unless Absent, the given
\* temperature, humidity and lora_sensors object.
EntryWith(timestamp, temperature, humidity, lora_sensors) ==
    LET all == [timestamp |-> timestamp, temperature |-> temperature,
                humidity |-> humidity, lora_sensors |-> lora_sensors]
    IN  [k \in {f \in DOMAIN all : all[f] # Absent} |-> all[k]]

\* The lora_sensors objects of the stores that get_combined is applied to:
\* one with sensor k1, one with k1, at a later time, and k2.
CombinedHeap ==
    << DictSet(EmptyDict, "k1", [last_update |-> 1]),
       DictSet(DictSet(EmptyDict, "k1", [last_update |-> 2]), "k2", [last_update |-> 1]) >>

\* The entries of those stores, as calls of update leave them.
CombinedEntries ==
    { EntryWith(ts, te, hu, lo) :
        ts \in 1..2, te \in {Absent, None, 10, 20}, hu \in {Absent, 60}, lo \in {Absent, 1, 2} }

\* get_combined on every store of two instruments with such entries, in
\* either order of insertion.
CombinedInit ==
    /\ InitTracker
    /\ InitLocals
    /\ InitReaders
    /\ InitNoMessage
    /\ polls_left = 0
    /\ InitLoop
    /\ answering = [d \in Devices |-> FALSE]
    /\ quota = 0
    /\ extractedleft = 0
    /\ store_lock = NoThread
    /\ now = 2
    /\ heap = CombinedHeap
    /\ instruments \in [StoreCodes -> CombinedEntries]
    /\ serial = [c \in DOMAIN instruments |-> ByValue(instruments[c], heap)]
    /\ inst_order \in {<<INSTRUMENT_CODE_MQTT_WEATHER, "sqm-41">>,
                       <<"sqm-41", INSTRUMENT_CODE_MQTT_WEATHER>>}

CombinedNext == \E t \in {"reader1"} : get_combined(t) \/ SnapshotReturn(t)

CombinedSpec == CombinedInit /\ [][CombinedNext]_vars

\* Total number of outcomes recorded, and of calls of update, in one run of
\* the model of the clients that query the tracker and the store.
MaxQueryRecords == 2
MaxQueryUpdates == 1

\* The tracker and the store under calls from their clients.
QueryInit ==
    /\ InitTracker
    /\ InitStore
    /\ InitLocals
    /\ InitReaders
    /\ InitNoMessage
    /\ polls_left = 0
    /\ InitLoop
    /\ answering = [d \in Devices |-> FALSE]
    /\ quota = MaxQueryRecords
    /\ extractedleft = MaxQueryUpdates

QueryNext ==
    \/ \E t \in TrackerThreads : TrackerStep(t)
    \/ \E t \in StoreThreads : StoreStep(t)

QuerySpec == QueryInit /\ [][QueryNext]_vars

\* The device readers with the tracker and the store.
ReaderInit ==
    /\ InitTracker
    /\ InitStore
    /\ InitLocals
    /\ InitReaders
    /\ InitNoMessage
    /\ polls_left = MaxPolls
    /\ InitLoop
    /\ answering = [d \in Devices |-> FALSE]
    /\ quota = 0
    /\ extractedleft = 0

ReaderStep(d) ==
    \/ read_sqm_device(d)
    \/ read_weatherlink_device(d)
    \/ read_cloudwatcher_device(d)

ReaderNext == \E d \in Devices : ReaderStep(d)

ReaderSpec == ReaderInit /\ [][ReaderNext]_vars

\* The reader threads and the heartbeat thread in their loops. In one run a
\* device answers every call or none: a call to the first returns a
\* response, a call to the second ends in an exception, at the latest when
\* its timeout expires. The loops keep nothing from one attempt to the next.
LoopInit ==
    /\ InitTracker
    /\ InitStore
    /\ InitLocals
    /\ InitReaders
    /\ InitNoMessage
    /\ polls_left = 0
    /\ InitLoop
    /\ \E up \in SUBSET Reachable : answering = [d \in Devices |-> d \in up]
    /\ quota = 0
    /\ extractedleft = 0

LoopNext ==
    /\ \/ \E d \in LoopDevices : ReaderLoopStep(d)
       \/ push_heartbeat
    /\ UNCHANGED loopFrame

LoopSpec == LoopInit /\ [][LoopNext]_vars

\* The same threads under a scheduler: a call that can go on does go on,
\* and a thread that waits for a lock which is released again and again
\* does get it.
FairLoopSpec ==
    /\ LoopSpec
    /\ \A d \in LoopDevices :
          /\ WF_vars((ReaderIo(d) \/ ReaderUpdateExit(d) \/ ReaderRecordExit(d)
                         \/ ReaderWake(d)) /\ UNCHANGED loopFrame)
          /\ SF_vars((ReaderUpdateEnter(d) \/ ReaderRecordEnter(d))
                         /\ UNCHANGED loopFrame)
    /\ WF_vars((HbGetAllExit \/ HbStatusExit \/ HbRateExit) /\ UNCHANGED loopFrame)

\* The same, with the heartbeat thread scheduled like the readers: its
\* sleep and its post end, and it gets the locks it waits for.
FairHeartbeatSpec ==
    /\ FairLoopSpec
    /\ WF_vars(HbPost /\ UNCHANGED loopFrame)
    /\ SF_vars((HbGetAllEnter \/ HbStatusEnter \/ HbRateEnter) /\ UNCHANGED loopFrame)

\* The heartbeat and the reader of one device that answers and, at some
\* time, may stop answering.
HealthInit ==
    /\ InitTracker
    /\ InitStore
    /\ InitLocals
    /\ InitReaders
    /\ InitNoMessage
    /\ polls_left = 0
    /\ InitLoop
    /\ answering = [d \in Devices |-> d \in Reachable]
    /\ quota = 0
    /\ extractedleft = 0

HealthNext ==
    /\ \/ \E d \in Reachable : ReaderLoopStep(d) \/ DeviceStops(d)
       \/ push_heartbeat
    /\ UNCHANGED loopFrame

HealthSpec == HealthInit /\ [][HealthNext]_vars

\* The handlers of a Cloudwatcher message, for every message.
ClassifyInit ==
    /\ InitTracker
    /\ InitStore
    /\ InitLocals
    /\ InitReaders
    /\ InitHandlers
    /\ msg \in Messages
    /\ polls_left = 0
    /\ InitLoop
    /\ answering = [d \in Devices |-> FALSE]
    /\ quota = 0
    /\ extractedleft = 0

ClassifyNext == CgiClassify \/ MqttClassify

ClassifySpec == ClassifyInit /\ [][ClassifyNext]_vars

\* The messages with none or one value of a key.
Optional(key, values) == {EmptyDict} \cup {key :> v : v \in values}

\* The values of a Safe flag: as the CGI interface writes it ("1", "0"), as
\* a word, and empty.
FlagValues == {"1", "0", "Safe", ""}

\* The Cloudwatcher messages that carry any of the raw measurements and any
\* of the Safe flags.
FlaggedMessages ==
    { c @@ t @@ r @@ l @@ w @@ cs @@ rs @@ ls @@ ws :
        c \in Optional("clouds", {-300, -50}),
        t \in Optional("temp", {0}),
        r \in Optional("rain", {1000, 3000}),
        l \in Optional("lightmpsas", {50, 210}),
        w \in Optional("wind", {50, 400}),
        cs \in Optional("cloudsSafe", FlagValues),
        rs \in Optional("rainSafe", FlagValues),
        ls \in Optional("lightSafe", FlagValues),
        ws \in Optional("windSafe", FlagValues) }

\* The handlers of a Cloudwatcher message, for every such message.
FlagInit ==
    /\ InitTracker
    /\ InitStore
    /\ InitLocals
    /\ InitReaders
    /\ InitHandlers
    /\ msg \in FlaggedMessages
    /\ polls_left = 0
    /\ InitLoop
    /\ answering = [d \in Devices |-> FALSE]
    /\ quota = 0
    /\ extractedleft = 0

FlagSpec == FlagInit /\ [][ClassifyNext]_vars

----------------------------------------------------------------------------
(* Properties of the health tracker.                                       *)

\* The outcomes of log that a window of 10 retains: its last min(k, 10)
\* entries, k the length of log, in order.
RetainedWindow(log) ==
    LET k == Len(log)
        m == IF k < 10 THEN k ELSE 10
    IN  [i \in 1..m |-> log[k - m + i]]

\* The number of failures (FALSE entries) of a list of outcomes.
FailuresIn(lst) == Cardinality({i \in 1..Len(lst) : ~lst[i]})

\* A thread is between the append and the store of a record call.
InRecord(t) == pc[t] \in {"rec_slice", "rec_store"}

\* C1: get_all_statuses(), called on a tracker that holds history for at
\* least one code, returns a mapping whose keys are exactly the codes with
\* history and whose value for each code is what get_status gives for that
\* history.  As a property of runs: a call that has taken the lock with at
\* least one code to visit eventually reaches its return with that mapping.
C1_GetAllStatusesReturnsSnapshot ==
    \A t \in Threads :
        (pc[t] = "gas_iter" /\ keys[t] # {})
            ~> (/\ pc[t] = "gas_ret"
                /\ DOMAIN ret[t] = DOMAIN history
                /\ \A c \in DOMAIN history : ret[t][c] = Status(history[c]))

\* C2: every call of a tracker method returns and releases the lock it
\* took, so no thread waits for the lock forever.  As an invariant: the
\* thread that holds the tracker lock can always take its next step, it is
\* never itself waiting for the lock.
C2_LockHolderCanProceed ==
    \A t \in Threads : tracker_lock = t => ENABLED TrackerStep(t)

\* C3: get_status of a code whose history holds fewer than 3 outcomes, or
\* none, returns HEALTHY whatever the outcomes are.
C3_GraceStatusHealthy ==
    \A t \in Threads :
        (pc[t] = "gs_ret" /\ Len(HistoryGet(history, arg[t])) < 3)
            => ret[t] = "HEALTHY"

\* C3 witness: get_status is about to return HEALTHY for a code whose whole
\* history is two failures.
C3_Witness ==
    \E t \in Threads :
        /\ pc[t] = "gs_ret"
        /\ HistoryGet(history, arg[t]) = <<FALSE, FALSE>>
        /\ ret[t] = "HEALTHY"

C5_WindowIsLastTen ==
    /\ (\A t \in Threads : ~InRecord(t)) =>
            /\ DOMAIN history = {c \in Codes : recorded[c] # <<>>}
            /\ \A c \in DOMAIN history :
                /\ Len(history[c]) <= 10
                /\ history[c] = RetainedWindow(recorded[c])
    /\ \A t \in Threads :
        LET w == RetainedWindow(recorded[arg[t]])
        IN  /\ (pc[t] = "gfr_ret" /\ w # <<>>) => ret[t] = <<FailuresIn(w), Len(w)>>
            /\ (pc[t] = "gs_ret" /\ Len(w) >= 3) =>
                    /\ ret[t] = "OFFLINE" <=> 10 * FailuresIn(w) >= 8 * Len(w)
                    /\ ret[t] = "HEALTHY" <=> 10 * FailuresIn(w) < 2 * Len(w)

\* C5 witness: 11 outcomes were recorded for a code, the first a failure
\* and the rest successes, and get_failure_rate is about to return 0/10.
C5_Witness ==
    \E t \in Threads :
        /\ pc[t] = "gfr_ret"
        /\ Len(recorded[arg[t]]) = 11
        /\ ~recorded[arg[t]][1]
        /\ FailuresIn(recorded[arg[t]]) = 1
        /\ ret[t] = <<0, 10>>

\* C6: get_failure_rate returns 0.0 for a code with no recorded history and
\* otherwise failures / length of the retained window; the result is
\* between 0 and 1 inclusive.
C6_FailureRate ==
    \A t \in Threads :
        pc[t] = "gfr_ret" =>
            /\ arg[t] \notin DOMAIN history => ret[t] = <<0, 1>>
            /\ arg[t] \in DOMAIN history =>
                ret[t] = <<FailuresIn(history[arg[t]]), Len(history[arg[t]])>>
            /\ ret[t][2] > 0
            /\ 0 <= ret[t][1]
            /\ ret[t][1] <= ret[t][2]

\* C6 witness: get_failure_rate is about to return 0.0 for a code without
\* history while the other code has failures recorded.
C6_Witness ==
    \E t \in Threads :
        /\ pc[t] = "gfr_ret"
        /\ arg[t] \notin DOMAIN history
        /\ \E c \in DOMAIN history : FailuresIn(history[c]) > 0
        /\ ret[t] = <<0, 1>>

\* C7: under any interleaving of record calls no recording is lost or
\* corrupted: the history of a code on which no record call is in progress
\* is the last 10 outcomes recorded for it in the order the calls took the
\* lock, also while a record call on another code is in progress.
C7_NoLostRecording ==
    \A c \in Codes :
        (\A t \in Threads : InRecord(t) => arg[t] # c) =>
            HistoryGet(history, c) = RetainedWindow(recorded[c])

\* C7 witness: a record call on one code is in progress with the 10th
\* outcome of that code, and the other code holds its own recorded outcome.
C7_Witness ==
    \E t \in Threads, c \in Codes :
        /\ InRecord(t)
        /\ Len(recorded[arg[t]]) = 10
        /\ c # arg[t]
        /\ recorded[c] # <<>>
        /\ HistoryGet(history, c) = recorded[c]

----------------------------------------------------------------------------
(* Properties of the data store.                                           *)

\* What the store holds: every entry with the contents of its lora_sensors
\* object in place of the object's address.
StoreContents ==
    [c \in DOMAIN instruments |->
        [k \in DOMAIN instruments[c] |->
            IF k = "lora_sensors" THEN heap[instruments[c][k]] ELSE instruments[c][k]]]

\* C8: update(code, partial) is a merge: when it is about to return the
\* entry exists, every field of partial has the value passed, every other
\* field the entry held keeps its value, the entry has no key besides these
\* and the timestamp, and the timestamp is a reading of the clock taken
\* during this update; get returns the entry as it is.
C8_UpdateMerges ==
    /\ \A t \in Threads :
        pc[t] = "upd_ret" =>
            /\ arg[t] \in DOMAIN instruments
            /\ LET entry == instruments[arg[t]]
               IN  /\ DOMAIN entry = DOMAIN before[t] \cup DOMAIN kwargs[t] \cup {"timestamp"}
                   /\ \A f \in DOMAIN kwargs[t] : entry[f] = kwargs[t][f]
                   /\ \A f \in DOMAIN before[t] \ (DOMAIN kwargs[t] \cup {"timestamp"}) :
                        entry[f] = before[t][f]
                   /\ call_time[t] <= entry["timestamp"]
                   /\ entry["timestamp"] <= now
    /\ \A t \in Threads :
        pc[t] = "get_ret" => ret[t] = DictGet(instruments, arg[t], EmptyDict)

\* C8 witness: update(code, humidity=50) is about to return on an entry
\* that update(code, temperature=20) created at an earlier time; the entry
\* holds both fields and the time of the second update.
C8_Witness ==
    \E t \in Threads :
        /\ pc[t] = "upd_ret"
        /\ kwargs[t] = DictSet(EmptyDict, "humidity", 50)
        /\ before[t] = DictSet(DictSet(EmptyDict, "temperature", 20), "timestamp", 1)
        /\ call_time[t] = 2
        /\ instruments[arg[t]] =
              DictSet(DictSet(DictSet(EmptyDict, "temperature", 20), "humidity", 50),
                      "timestamp", 2)

\* C9 as claimed: when update is called with a lora_sensors mapping on an
\* entry that holds one, the entry afterwards holds the keys of both.
C9_UpdateMergesLoraSensors ==
    \A t \in Threads :
        (/\ pc[t] = "upd_ret"
         /\ "lora_sensors" \in DOMAIN kwargs[t]
         /\ "lora_sensors" \in DOMAIN before[t])
            => (DOMAIN heap[before[t]["lora_sensors"]] \cup DOMAIN heap[kwargs[t]["lora_sensors"]])
                    \subseteq DOMAIN heap[instruments[arg[t]]["lora_sensors"]]

\* C9 as amended: update replaces the lora_sensors mapping of the entry by
\* the mapping passed; the merge by key is made by the lora branch of
\* on_mqtt_message, which passes to update the mapping that get returned
\* with the sensor's key added, so that the entry afterwards holds every
\* key of the mapping get returned and the key of the sensor.
C9_LoraBranchMerges ==
    \A t \in Threads :
        (pc[t] = "upd_ret" /\ "lora_sensors" \in DOMAIN kwargs[t]) =>
            /\ instruments[arg[t]]["lora_sensors"] = kwargs[t]["lora_sensors"]
            /\ sensor[t] # Nothing =>
                DOMAIN heap[instruments[arg[t]]["lora_sensors"]] = seen[t] \cup {sensor[t]}

\* C9 witness: the update of a message of sensor k2 is about to return and
\* the entry, which held k1 when the handler read it, holds k1 and k2.
C9_Witness ==
    \E t \in Threads :
        /\ pc[t] = "upd_ret"
        /\ sensor[t] = "k2"
        /\ seen[t] = {"k1"}
        /\ DOMAIN heap[instruments[arg[t]]["lora_sensors"]] = {"k1", "k2"}

\* C10: get and get_all return defensive copies: a change that a caller
\* makes to a reading it got, here the key that on_mqtt_message sets in the
\* lora_sensors mapping of the reading get returned (line 307), leaves what
\* the store holds unchanged.
C10_ReturnedReadingIsDetached ==
    [][(\E t \in Threads : pc[t] = "lora_set" /\ pc'[t] = "lora_update")
            => StoreContents' = StoreContents]_vars

----------------------------------------------------------------------------
(* Properties of queries for unknown codes.                                *)

\* The positions at which get, get_status and get_failure_rate hold their
\* result.
QueryReturns == {"get_ret", "gs_ret", "gfr_ret"}

\* C11: a query for a code that has no entry or no history returns the
\* default and changes nothing: get returns an empty reading, get_status
\* HEALTHY and get_failure_rate 0.0, and no step of a query changes the
\* entries of the store or the histories of the tracker, so the code still
\* has neither after the query.
C11_UnknownCodeQuery ==
    [][\A t \in Threads :
        /\ (pc[t] # "get_ret" /\ pc'[t] = "get_ret" /\ arg'[t] \notin DOMAIN instruments)
                => ret'[t] = EmptyDict
        /\ (pc[t] # "gs_ret" /\ pc'[t] = "gs_ret" /\ arg'[t] \notin DOMAIN history)
                => ret'[t] = "HEALTHY"
        /\ (pc[t] # "gfr_ret" /\ pc'[t] = "gfr_ret" /\ arg'[t] \notin DOMAIN history)
                => ret'[t] = <<0, 1>>
        /\ (pc[t] # pc'[t] /\ (pc[t] \in QueryReturns \/ pc'[t] \in QueryReturns))
                => /\ instruments' = instruments
                   /\ inst_order' = inst_order
                   /\ heap' = heap
                   /\ history' = history
      ]_vars

\* C11 witness: get_status is about to return HEALTHY for a code without
\* history while another code has one, and get is about to return {} for a
\* code without entry while another code has one.
C11_Witness ==
    \E t \in Threads, u \in Threads :
        /\ pc[t] = "gs_ret"
        /\ arg[t] \notin DOMAIN history
        /\ DOMAIN history # {}
        /\ ret[t] = "HEALTHY"
        /\ pc[u] = "get_ret"
        /\ arg[u] \notin DOMAIN instruments
        /\ DOMAIN instruments # {}
        /\ ret[u] = EmptyDict

----------------------------------------------------------------------------
(* Properties of get_combined.                                             *)

\* The positions in the iteration order of the instruments that hold a
\* non-null value of field k.
Holders(k) ==
    {i \in 1..Len(inst_order) :
        /\ k \in DOMAIN instruments[inst_order[i]]
        /\ instruments[inst_order[i]][k] # None}

\* The positions of the instruments whose lora_sensors holds sensor id.
LoraHolders(id) ==
    {i \in 1..Len(inst_order) :
        /\ "lora_sensors" \in DOMAIN instruments[inst_order[i]]
        /\ id \in DOMAIN heap[instruments[inst_order[i]]["lora_sensors"]]}

\* The largest element of a non-empty set of numbers.
Last(S) == CHOOSE i \in S : \A j \in S : j <= i

\* C12: what get_combined returns is the fold of the entries: a scalar
\* field has the last non-null value met in iteration order, or its default
\* (null; Unknown for a condition field) when no instrument holds a
\* non-null value; lora_sensors has the keys of the lora_sensors of all the
\* instruments, each with the value of the last instrument that holds it;
\* and the call leaves the store as it was.
C12_CombinedIsFold ==
    [][\A t \in Threads :
        (pc[t] = "idle" /\ pc'[t] = "get_combined_ret") =>
            /\ DOMAIN ret'[t] =
                 {"timestamp", "temperature", "humidity", "cloud_condition", "lora_sensors"}
            /\ \A k \in {"timestamp", "temperature", "humidity"} :
                 ret'[t][k] = IF Holders(k) = {} THEN None
                              ELSE instruments[inst_order[Last(Holders(k))]][k]
            /\ ret'[t]["cloud_condition"] = "Unknown"
            /\ DOMAIN ret'[t]["lora_sensors"] = {id \in SensorIds : LoraHolders(id) # {}}
            /\ \A id \in DOMAIN ret'[t]["lora_sensors"] :
                 ret'[t]["lora_sensors"][id] =
                    heap[instruments[inst_order[Last(LoraHolders(id))]]["lora_sensors"]][id]
            /\ instruments' = instruments
            /\ inst_order' = inst_order
            /\ heap' = heap
      ]_vars

\* C12 witness: the first instrument holds temperature 10 and sensor k1,
\* the second a null temperature, humidity 60 and sensors k1 and k2, and
\* get_combined is about to return temperature 10, humidity 60 and both
\* sensors.
C12_Witness ==
    \E t \in Threads :
        /\ pc[t] = "get_combined_ret"
        /\ Len(inst_order) = 2
        /\ instruments[inst_order[1]] = EntryWith(1, 10, Absent, 1)
        /\ instruments[inst_order[2]] = EntryWith(2, None, 60, 2)
        /\ ret[t]["temperature"] = 10
        /\ ret[t]["humidity"] = 60
        /\ ret[t]["timestamp"] = 2
        /\ DOMAIN ret[t]["lora_sensors"] = {"k1", "k2"}

----------------------------------------------------------------------------
(* Properties of the store under concurrent callers.                       *)

\* A thread is inside a method of the store.
InStore(t) ==
    pc[t] \in {"upd_stamp", "upd_ret", "get_ret", "get_all_ret", "get_combined_ret"}

\* The entries of serial with the code in place of the lora_sensors
\* mapping, and the mappings by code: serial in the form FoldAll takes.
SerialRefs ==
    [c \in DOMAIN serial |->
        [k \in DOMAIN serial[c] |-> IF k = "lora_sensors" THEN c ELSE serial[c][k]]]

SerialObjects ==
    [c \in {x \in DOMAIN serial : "lora_sensors" \in DOMAIN serial[x]} |->
        serial[c]["lora_sensors"]]

\* C13: the operations of the store are atomic with respect to each other:
\* at most one thread is inside a method, and what get, get_all and
\* get_combined are about to return is what the calls of update made so far
\* give when applied one after the other, so that a reading never shows a
\* part of an update, or field values newer than its timestamp.
C13_StoreOperationsAtomic ==
    /\ \A t \in Threads, u \in Threads : (InStore(t) /\ InStore(u)) => t = u
    /\ \A t \in Threads :
        /\ pc[t] = "get_ret" =>
              ByValue(ret[t], heap) = DictGet(serial, arg[t], EmptyDict)
        /\ pc[t] = "get_all_ret" =>
              [c \in DOMAIN ret[t] |-> ByValue(ret[t][c], heap)] = serial
        /\ pc[t] = "get_combined_ret" =>
              ret[t] = FoldAll(CombinedDefaults, inst_order, SerialRefs, SerialObjects)

----------------------------------------------------------------------------
(* Properties of the identity of the device readers.                       *)

\* C14: identity never regresses: once a reader has taken the code derived
\* from the hardware id, its instrument_code stays that code, and every
\* update and every record it makes from then on is under that code, none
\* under the code derived from the address.
C14_IdentityNeverRegresses ==
    \A d \in Devices :
        promoted_at[d] >= 0 =>
            /\ instrument_code[d] = HardwareCode(Kind(d), resolved_id[d])
            /\ instrument_code[d] # AddressCode(d)
            /\ \A i \in (promoted_at[d] + 1)..Len(writes[d]) :
                 /\ writes[d][i] = HardwareCode(Kind(d), resolved_id[d])
                 /\ writes[d][i] # AddressCode(d)

\* C14 witness: the reader of the SQM at 192.168.1.5 recorded under
\* sqm-192-168-1-5, then resolved serial 00041, and has since written, every
\* time under sqm-41.
C14_Witness ==
    /\ promoted_at["sqm1"] >= 1
    /\ writes["sqm1"][1] = <<"sqm", "192-168-1-5">>
    /\ resolved_id["sqm1"] = "41"
    /\ Len(writes["sqm1"]) > promoted_at["sqm1"]
    /\ writes["sqm1"][Len(writes["sqm1"])] = <<"sqm", "41">>
    /\ <<"sqm", "41">> \in DOMAIN instruments

\* C15: two readers of the same device type whose lookups gave the same
\* hardware id have the same instrument code, the one made of the type and
\* the id, whatever their hosts are.
C15_SameIdSameCode ==
    \A d1 \in Devices, d2 \in Devices :
        (/\ Kind(d1) = Kind(d2)
         /\ resolved_id[d1] # NoId
         /\ resolved_id[d1] = resolved_id[d2])
            => /\ instrument_code[d1] = instrument_code[d2]
               /\ instrument_code[d1] = HardwareCode(Kind(d1), resolved_id[d1])

\* C15 witness: the readers of the SQMs at 192.168.1.5 and 192.168.1.6 both
\* resolved serial 41 and both have written under sqm-41.
C15_Witness ==
    /\ Host("sqm1") # Host("sqm2")
    /\ resolved_id["sqm1"] = "41"
    /\ resolved_id["sqm2"] = "41"
    /\ instrument_code["sqm1"] = <<"sqm", "41">>
    /\ instrument_code["sqm2"] = <<"sqm", "41">>
    /\ writes["sqm1"] # <<>>
    /\ writes["sqm2"] # <<>>
    /\ writes["sqm1"][Len(writes["sqm1"])] = writes["sqm2"][Len(writes["sqm2"])]

\* C16: for every reader, once a lookup of the hardware id has completed
\* without an id the reader has marked the resolution complete
\* (serial_obtained is true, so that no later turn looks the id up again)
\* and its code is the one derived from the address, for the rest of the run.
C16_FailedLookupEndsResolution ==
    \A d \in Devices :
        lookup_failed[d] =>
            /\ serial_obtained[d]
            /\ instrument_code[d] = AddressCode(d)

----------------------------------------------------------------------------
(* Properties of the lifetime of the entries of the store.                 *)

\* The step is one of a call of update for code c: the merge or the
\* timestamp.
UpdateStepOn(c) ==
    \E t \in Threads :
        /\ pc'[t] # pc[t]
        /\ pc'[t] \in {"upd_stamp", "upd_ret"}
        /\ arg'[t] = c

\* The step is line 307 of the lora handler, which is on its way to its
\* call of update for code c (line 311).
LoraSetStepOn(c) ==
    \E t \in Threads :
        /\ pc[t] = "lora_set"
        /\ pc'[t] = "lora_update"
        /\ arg'[t] = c

\* C17: the store never evicts: a code that has an entry has one after
\* every step, and a step that does not belong to an update of the code
\* (the call itself, or the lora handler's assignment that its update of
\* the code follows) leaves the entry's fields and timestamp as they are.
C17_StoreNeverEvicts ==
    [][\A c \in DOMAIN instruments :
        /\ c \in DOMAIN instruments'
        /\ ~UpdateStepOn(c) => instruments'[c] = instruments[c]
        /\ ~(UpdateStepOn(c) \/ LoraSetStepOn(c)) => StoreContents'[c] = StoreContents[c]
      ]_vars

\* C17 witness: the entry of sqm-41, written at time 1 and not since, is
\* in what get_all is about to return at time 2, with its field and its
\* timestamp, after a later update of another code.
C17_Witness ==
    \E t \in Threads :
        /\ pc[t] = "get_all_ret"
        /\ now = 2
        /\ DOMAIN ret[t] = {"sqm-41", INSTRUMENT_CODE_MQTT_WEATHER}
        /\ ret[t]["sqm-41"] = DictSet(DictSet(EmptyDict, "temperature", 20), "timestamp", 1)
        /\ ret[t][INSTRUMENT_CODE_MQTT_WEATHER]["timestamp"] = 2

----------------------------------------------------------------------------
(* Properties of the Cloudwatcher classifiers.                             *)

\* How wet a rain condition is.
Wetness(label) ==
    CASE label = "Dry" -> 0
      [] label = "Wet" -> 1
      [] label = "Rain" -> 2

\* C18: classify_cloud_condition(sky, ambient), with delta = sky - ambient,
\* gives Clear exactly when delta < -25, Cloudy exactly when
\* -25 <= delta < -15 and VeryCloudy exactly when delta >= -15; so delta -30
\* is Clear, -25 and -20 are Cloudy, -15 and -5 are VeryCloudy.
C18_CloudCondition ==
    /\ handler = "cgi" =>
         LET delta == msg.clouds - msg.temp
         IN  /\ updates.cloud_condition = "Clear" <=> delta < -250
             /\ updates.cloud_condition = "Cloudy" <=> (-250 <= delta /\ delta < -150)
             /\ updates.cloud_condition = "VeryCloudy" <=> delta >= -150
    /\ classify_cloud_condition(-300, 0) = "Clear"
    /\ classify_cloud_condition(-250, 0) = "Cloudy"
    /\ classify_cloud_condition(-200, 0) = "Cloudy"
    /\ classify_cloud_condition(-150, 0) = "VeryCloudy"
    /\ classify_cloud_condition(-50, 0) = "VeryCloudy"

\* C18 witness: the CGI reader has classified a sky exactly 25 degrees
\* below a non-zero ambient temperature as Cloudy.
C18_Witness ==
    /\ handler = "cgi"
    /\ msg.temp # 0
    /\ msg.clouds - msg.temp = -250
    /\ updates.cloud_condition = "Cloudy"

\* C19: classify_rain_condition(v) gives Dry exactly when v > 2500, Wet
\* exactly when 1500 < v <= 2500 and Rain exactly when v <= 1500, and the
\* result never gets wetter as v increases.
C19_RainCondition ==
    /\ handler = "cgi" =>
         /\ updates.rain_condition = "Dry" <=> msg.rain > 2500
         /\ updates.rain_condition = "Wet" <=> (1500 < msg.rain /\ msg.rain <= 2500)
         /\ updates.rain_condition = "Rain" <=> msg.rain <= 1500
    /\ \A v1 \in RainValues, v2 \in RainValues :
         v1 <= v2 =>
            Wetness(classify_rain_condition(v1)) >= Wetness(classify_rain_condition(v2))

\* C19 witness: the CGI reader has classified a reading of exactly 2500
\* as Wet.
C19_Witness ==
    /\ handler = "cgi"
    /\ msg.rain = 2500
    /\ updates.rain_condition = "Wet"

\* C20: the day condition from mpsas is Dark exactly when mpsas > 18, Light
\* exactly when 10 < mpsas <= 18 and VeryLight exactly when mpsas <= 10,
\* and for a message with the same mpsas the MQTT handler and the CGI
\* reader arrive at the same label.
C20_DayConditionAgrees ==
    /\ handler = "cgi" =>
         /\ updates.day_condition = "Dark" <=> msg.lightmpsas > 180
         /\ updates.day_condition = "Light" <=> (100 < msg.lightmpsas /\ msg.lightmpsas <= 180)
         /\ updates.day_condition = "VeryLight" <=> msg.lightmpsas <= 100
    /\ handler = "mqtt" =>
         /\ "day_condition" \in DOMAIN updates
         /\ updates["day_condition"] = CgiUpdates(msg).day_condition

----------------------------------------------------------------------------
(* Properties of the Cloudwatcher condition flags.                         *)

\* The conditions of a Cloudwatcher reading: the key of the label, the key
\* of the flag, the labels for a safe and an unsafe flag, and the label
\* computed from the raw measurements, Nothing when the message lacks them.
Conditions == {"cloud_condition", "rain_condition", "day_condition", "wind_condition"}

FlagOf(c) ==
    CASE c = "cloud_condition" -> "cloudsSafe"
      [] c = "rain_condition" -> "rainSafe"
      [] c = "day_condition" -> "lightSafe"
      [] c = "wind_condition" -> "windSafe"

SafeLabel(c) ==
    CASE c = "cloud_condition" -> "Clear"
      [] c = "rain_condition" -> "Dry"
      [] c = "day_condition" -> "Dark"
      [] c = "wind_condition" -> "Calm"

UnsafeLabel(c) ==
    CASE c = "cloud_condition" -> "Cloudy"
      [] c = "rain_condition" -> "Rain"
      [] c = "day_condition" -> "Light"
      [] c = "wind_condition" -> "Windy"

Computed(c, m) ==
    CASE c = "cloud_condition" ->
            IF {"clouds", "temp"} \subseteq DOMAIN m
            THEN classify_cloud_condition(m.clouds, m.temp) ELSE Nothing
      [] c = "rain_condition" ->
            IF "rain" \in DOMAIN m THEN classify_rain_condition(m.rain) ELSE Nothing
      [] c = "day_condition" ->
            IF "lightmpsas" \in DOMAIN m THEN CgiDayCondition(m.lightmpsas) ELSE Nothing
      [] c = "wind_condition" ->
            IF "wind" \in DOMAIN m THEN classify_wind_condition(m.wind) ELSE Nothing

\* The value of a flag that means safe to the handler.
SafeValue(h) == IF h = "cgi" THEN "1" ELSE "Safe"

\* C21: for each of the four conditions, a label that a handler puts in
\* updates for a message that carries the condition's Safe flag is the
\* label of that flag's value, whatever the raw measurements are; the CGI
\* reader puts that label for every message with the flag; and a handler
\* puts the label computed from the raw measurements only for a message
\* without the flag.
C21_FlagTakesPrecedence ==
    handler # Nothing =>
        \A c \in Conditions :
            /\ (FlagOf(c) \in DOMAIN msg /\ c \in DOMAIN updates) =>
                    updates[c] = IF msg[FlagOf(c)] = SafeValue(handler)
                                 THEN SafeLabel(c) ELSE UnsafeLabel(c)
            /\ (handler = "cgi" /\ FlagOf(c) \in DOMAIN msg) => c \in DOMAIN updates
            /\ (FlagOf(c) \notin DOMAIN msg /\ c \in DOMAIN updates) =>
                    updates[c] = Computed(c, msg)
            /\ (handler = "cgi" /\ FlagOf(c) \notin DOMAIN msg) =>
                    (c \in DOMAIN updates <=> Computed(c, msg) # Nothing)

\* C21 witness: the CGI reader has handled a message whose cloudsSafe flag
\* is unsafe while its temperatures classify as Clear, and one whose
\* rainSafe flag is safe while its rain reading classifies as Rain; the
\* labels are those of the flags.
C21_Witness ==
    /\ handler = "cgi"
    /\ {"cloudsSafe", "clouds", "temp", "rainSafe", "rain"} \subseteq DOMAIN msg
    /\ msg.cloudsSafe = "0"
    /\ classify_cloud_condition(msg.clouds, msg.temp) = "Clear"
    /\ updates.cloud_condition = "Cloudy"
    /\ msg.rainSafe = "1"
    /\ classify_rain_condition(msg.rain) = "Rain"
    /\ updates.rain_condition = "Dry"

----------------------------------------------------------------------------
(* Properties of the health tracker under runs of outcomes.                *)

\* The last n outcomes of log are all v.
EndsWithRun(log, v, n) ==
    /\ Len(log) >= n
    /\ \A i \in (Len(log) - n + 1)..Len(log) : log[i] = v

\* C22: the status is computed from the retained window at each call:
\* whatever the history was before, a get_status(code) that follows 10
\* consecutive record_failure(code) returns OFFLINE, and one that follows
\* 10 consecutive record_success(code) returns HEALTHY.
C22_StatusNeverCached ==
    \A t \in Threads :
        pc[t] = "gs_ret" =>
            /\ EndsWithRun(recorded[arg[t]], FALSE, 10) => ret[t] = "OFFLINE"
            /\ EndsWithRun(recorded[arg[t]], TRUE, 10) => ret[t] = "HEALTHY"

\* C22 witness: on a window of 10 failures the thread has recorded 10
\* successes, and get_status returns HEALTHY.
C22_Witness ==
    /\ pc["reader1"] = "gs_ret"
    /\ arg["reader1"] = "sqm-41"
    /\ recorded["sqm-41"] = Repeat(FALSE, 10) \o Repeat(TRUE, 10)
    /\ ret["reader1"] = "HEALTHY"

----------------------------------------------------------------------------
(* Properties of the device readers' polls.                                *)

\* C23: a reader marks the resolution of its hardware id complete only
\* after an exchange with its device has succeeded: a reader that has never
\* reached its device still has serial_obtained false, so that its first
\* successful exchange looks the id up.
C23_UnreachedStaysUnresolved ==
    \A d \in Devices : ~reached[d] => ~serial_obtained[d]

\* The codes build_expected_instruments registers: set(all_data.keys()) of
\* data_store.get_all(), lines 1092-1093.
known_codes == DOMAIN instruments

\* C24: the codes that build_expected_instruments registers never hold both
\* the address-derived code of a reader and the hardware-id-derived code of
\* the same reader (the id being that of this reader's device alone).
C24_OneCodePerReader ==
    \A d \in Devices :
        (/\ resolved_id[d] # NoId
         /\ \A e \in Devices \ {d} : resolved_id[e] # resolved_id[d])
            => ~({AddressCode(d), HardwareCode(Kind(d), resolved_id[d])} \subseteq known_codes)

\* The step ends a poll attempt of the reader of d, and the attempt that
\* it ends.
EndsAttempt(d) == Len(polls'[d]) = Len(polls[d]) + 1
Ended(d) == polls'[d][Len(polls'[d])]

\* The health history after one more outcome under code, the others as
\* they were.
WithOutcome(h, code, success) ==
    [c \in DOMAIN h \cup {code} |->
        IF c = code THEN LastN(HistoryGet(h, code) \o <<success>>, WINDOW_SIZE) ELSE h[c]]

\* C25: a poll attempt that ends in a transient failure (no connection, an
\* exception, a response that is invalid or without data) appends exactly
\* one failure to the history of the reader's current code and leaves the
\* store alone; and the reader is not ended by it: it can always make its
\* next attempt.
C25_FailureRecordedOnce ==
    /\ [][\A d \in Devices :
            (EndsAttempt(d) /\ Ended(d).end \in {"bad", "error"}) =>
                /\ history' = WithOutcome(history, instrument_code'[d], FALSE)
                /\ instruments' = instruments]_vars
    /\ [](\A d \in Devices : polls_left > 0 => ENABLED ReaderStep(d))

\* C25 witness: the reader of the SQM, under its code sqm-41, has stored a
\* reading and then lost the connection: the history of sqm-41 is a success
\* and a failure, and the reader is about to connect again.
C25_Witness ==
    /\ instrument_code["sqm1"] = <<"sqm", "41">>
    /\ <<"sqm", "41">> \in DOMAIN history
    /\ history[<<"sqm", "41">>] = <<TRUE, FALSE>>
    /\ Len(polls["sqm1"]) = 2
    /\ polls["sqm1"][2].end = "error"
    /\ ~connected["sqm1"]
    /\ polls_left > 0

\* C26: every poll attempt produces exactly one outcome signal: the step
\* that ends an attempt of a reader, however it ends, appends one outcome,
\* a success or a failure, to the history of the reader's current code.
C26_OneSignalPerAttempt ==
    [][\A d \in Devices :
          EndsAttempt(d) =>
              \E success \in BOOLEAN :
                  history' = WithOutcome(history, instrument_code'[d], success)]_vars

\* C27: a turn of the WeatherLink or of the Cloudwatcher reader that has
\* extracted its updates from a response counts as a success exactly when
\* the updates are not empty: then the store holds them under the reader's
\* code and one success is recorded; with empty updates one failure is
\* recorded and the store is as it was.
C27_SuccessIffFieldExtracted ==
    [][\A d \in Devices :
          (/\ Kind(d) \in {"davis", "cw"}
           /\ EndsAttempt(d)
           /\ Ended(d).end \in {"ok", "bad"})
              => LET code == instrument_code'[d]
                     extracted == Ended(d).updates
                 IN  IF extracted # EmptyDict
                     THEN /\ code \in DOMAIN instruments'
                          /\ \A k \in DOMAIN extracted : instruments'[code][k] = extracted[k]
                          /\ history' = WithOutcome(history, code, TRUE)
                     ELSE /\ instruments' = instruments
                          /\ history' = WithOutcome(history, code, FALSE)]_vars

\* C27 witness: the Cloudwatcher reader has had a response with none of the
\* fields it knows and then one with the ambient temperature alone: a
\* failure and a success are recorded and the store holds the temperature.
C27_Witness ==
    /\ Len(polls["cw1"]) = 2
    /\ polls["cw1"][1] = Attempt("bad", EmptyDict)
    /\ polls["cw1"][2] = Attempt("ok", [ambient_temp |-> 12])
    /\ history[instrument_code["cw1"]] = <<FALSE, TRUE>>
    /\ instruments[instrument_code["cw1"]].ambient_temp = 12

\* The step makes a lookup of the hardware id of d that obtains nothing.
LookupObtainsNothing(d) ==
    /\ Len(lookups'[d]) = Len(lookups[d]) + 1
    /\ lookups'[d][Len(lookups'[d])] = NoId

\* C28: a lookup of the hardware id that obtains nothing is not a health
\* failure: the turn of the reader in which it is made records nothing but
\* the outcome of the data poll of that turn, a success when that poll
\* stores a reading, and nothing at all when the turn ends no poll.
C28_FailedLookupNotRecorded ==
    [][\A d \in Devices :
          LookupObtainsNothing(d) =>
              history' = IF EndsAttempt(d)
                         THEN WithOutcome(history, instrument_code'[d], Ended(d).end = "ok")
                         ELSE history]_vars

\* C28 witness: the lookup of the SQM reader on its first connection and
\* the lookup of the Cloudwatcher reader on its first turn obtained nothing;
\* the SQM reader has no history yet, the Cloudwatcher reader's data poll of
\* that turn stored a reading and its history is that one success.
C28_Witness ==
    /\ lookups["sqm1"] = <<NoId>>
    /\ connected["sqm1"]
    /\ polls["sqm1"] = <<>>
    /\ instrument_code["sqm1"] \notin DOMAIN history
    /\ lookups["cw1"] = <<NoId>>
    /\ Len(polls["cw1"]) = 1
    /\ polls["cw1"][1].end = "ok"
    /\ history[instrument_code["cw1"]] = <<TRUE>>

\* Thread t is in a network call or in a sleep.
Blocked(t) ==
    IF t = Heartbeat THEN hb.phase = "sleep" ELSE phase[t] \in {"io", "sleep"}

\* Thread t is inside a `with self._lock` block of the store or the tracker.
Holds(t) == store_lock = t \/ tracker_lock = t

\* The end of the `with self._lock` block thread t is in.
EndsBlock(t) ==
    /\ IF t = Heartbeat THEN HbGetAllExit \/ HbStatusExit \/ HbRateExit
       ELSE ReaderUpdateExit(t) \/ ReaderRecordExit(t)
    /\ UNCHANGED loopFrame

\* C30: no thread holds the store lock or the tracker lock while it is in a
\* network call or a sleep, and the thread that holds a lock can end its
\* block by a step of its own, so that no reader or reporting task ever
\* waits for a thread that is blocked on a device or asleep.
C30_NoLockAcrossBlockingCall ==
    \A t \in LoopThreads :
        /\ Blocked(t) => ~Holds(t)
        /\ Holds(t) => ENABLED EndsBlock(t)

\* C30 witness: the SQM reader is still in its first network call, and
\* meanwhile the Cloudwatcher reader has stored a reading and recorded two
\* outcomes, and the heartbeat is inside get_failure_rate for its code.
C30_Witness ==
    /\ phase["sqm1"] = "io"
    /\ instrument_code["sqm1"] \notin DOMAIN history
    /\ instrument_code["cw1"] \in DOMAIN instruments
    /\ Len(HistoryGet(history, instrument_code["cw1"])) >= 2
    /\ hb.phase = "get_failure_rate"
    /\ tracker_lock = Heartbeat

\* The attempt of reader d has just failed.
FailedPoll(d) == pending[d] = "error" /\ phase[d] = "want_record"

\* C29: a reader never stops: again and again it is in a network call and
\* again and again an attempt of it ends, and after every failed attempt it
\* comes to its next network call, whatever failures came before.
C29_ReadersRetryForever ==
    \A d \in LoopDevices :
        /\ FailedPoll(d) ~> (phase[d] = "io")
        /\ []<>(phase[d] = "io")
        /\ []<>(pending[d] # "none")

\* C29 witness: the window of the SQM reader holds failures only and is
\* full, and the reader is in its next network call.
C29_Witness ==
    /\ HistoryGet(history, instrument_code["sqm1"]) = Repeat(FALSE, WINDOW_SIZE)
    /\ phase["sqm1"] = "io"
    /\ pending["sqm1"] = "none"

\* Thread t waits for a lock.
Waits(t) ==
    IF t = Heartbeat THEN hb.phase \in {"loop", "want_rate"}
    ELSE phase[t] \in {"want_update", "want_record"}

\* C31: no thread holds the store lock and the tracker lock at the same
\* time, and a thread that waits for one of them holds neither, so that no
\* two threads can each hold the lock the other waits for.
C31_NeverBothLocks ==
    \A t \in LoopThreads :
        /\ ~(store_lock = t /\ tracker_lock = t)
        /\ Waits(t) => ~Holds(t)

\* C31 witness: the Cloudwatcher reader has stored its first reading and has
\* not yet recorded the success, and the heartbeat's get_all has returned
\* the stored entry: it is at the code whose history does not exist yet.
C31_Witness ==
    /\ phase["cw1"] = "want_record"
    /\ pending["cw1"] = "ok"
    /\ instrument_code["cw1"] \notin DOMAIN history
    /\ hb.phase = "get_status"
    /\ hb.code = instrument_code["cw1"]

\* C32: a keyword argument of update whose value is None leaves the value
\* the entry holds: after the merge of a call that passes None for a field
\* for which the entry held a reading, the entry still holds that reading.
C32_NullIsNoOp ==
    [][\A t \in Threads :
          (pc[t] \in {"idle", "lora_update"} /\ pc'[t] = "upd_stamp") =>
              \A k \in DOMAIN kwargs'[t] :
                  (kwargs'[t][k] = None /\ k \in DOMAIN before'[t]
                      /\ before'[t][k] # None) =>
                          instruments'[arg'[t]][k] = before'[t][k]]_vars

\* The heartbeat payload last built lists the instrument of device d with
\* status OFFLINE.
ListedOffline(d) ==
    /\ instrument_code[d] \in hb.payload.instruments
    /\ hb.payload.instrument_health[instrument_code[d]].status = "OFFLINE"

\* C33: for a device that answers no call of the run, every poll of which
\* therefore fails, some heartbeat payload eventually lists its instrument
\* with status OFFLINE.
C33_FailureReachesHeartbeat ==
    \A d \in LoopDevices : ~answering[d] => <>ListedOffline(d)

\* The status that get_status gives for a window of at least MIN_READINGS
\* outcomes whose failure rate is `rate`.
StatusOfRate(rate) ==
    IF RateAtLeast(rate, OFFLINE_THRESHOLD) THEN "OFFLINE"
    ELSE IF RateAtLeast(rate, DEGRADED_THRESHOLD) THEN "DEGRADED"
    ELSE "HEALTHY"

\* C34: when the heartbeat puts the status and the failure rate of a code
\* into instrument_health and the status was computed from at least
\* MIN_READINGS outcomes, the status is the classification of the failure
\* rate it is put in with.
C34_StatusMatchesRate ==
    [][(hb.phase = "get_failure_rate" /\ hb'.phase = "loop"
            /\ hb.enough) =>
          LET entry == hb'.instrument_health[hb.code]
          IN  entry.status = StatusOfRate(entry.failure_rate)]_vars

\* C35: what the store holds, the lora_sensors mappings of its entries
\* included, changes only by a step of the thread that holds the store
\* lock.
C35_StoreChangesUnderLock ==
    [][StoreContents' # StoreContents =>
          (store_lock' # NoThread /\ pc'[store_lock'] # pc[store_lock'])]_vars

\* The step promotes the reader of d: it leaves the code derived from the
\* address for a code that no other reader has.
Promotes(d) ==
    /\ instrument_code[d] = AddressCode(d)
    /\ instrument_code'[d] # AddressCode(d)
    /\ \A e \in Devices \ {d} : instrument_code[e] # instrument_code'[d]

Recognized(payload) ==
    \/ \E k \in {"clouds", "temp", "rain", "lightmpsas", "wind"} :
          DictGet(payload, k, None) # None
    \/ \E k \in {"cloudsSafe", "rainSafe", "lightSafe", "windSafe"} :
          Truthy(DictGet(payload, k, ""))

\* C37: for a Cloudwatcher message with a recognized field the MQTT handler
\* ends with the call of data_store.update, with the fields it took from
\* the message, and not in its error branch.
C37_MqttMessageStored ==
    (handler = "mqtt" /\ Recognized(msg)) =>
        /\ MqttEnds(msg) = "update"
        /\ updates # EmptyDict

\* C38: the entries are folded in the order of their creation: a call of
\* update puts a new code at the end of the order and leaves the place of a
\* code that has an entry, no other step changes the order, and
\* get_combined returns for a scalar field the value of the entry created
\* last among those that hold one, whenever the others were updated.
C38_CombinedFollowsCreation ==
    [][/\ \A t \in Threads :
            /\ (pc[t] \in {"idle", "lora_update"} /\ pc'[t] = "upd_stamp") =>
                  inst_order' = IF arg'[t] \in DOMAIN instruments THEN inst_order
                                ELSE Append(inst_order, arg'[t])
            /\ (pc[t] = "idle" /\ pc'[t] = "get_combined_ret") =>
                  \A k \in {"timestamp", "temperature", "humidity"} :
                      ret'[t][k] = IF Holders(k) = {} THEN None
                                   ELSE instruments[inst_order[Last(Holders(k))]][k]
       /\ (\A t \in Threads : pc'[t] # "upd_stamp" \/ pc[t] = "upd_stamp") =>
             inst_order' = inst_order]_vars

\* C38 witness: the entry created first was updated after the entry
\* created second, both hold a temperature, and get_combined is about to
\* return the temperature and the timestamp of the second, the older ones.
C38_Witness ==
    \E t \in Threads :
        /\ pc[t] = "get_combined_ret"
        /\ Len(inst_order) = 2
        /\ instruments[inst_order[1]]["timestamp"] > instruments[inst_order[2]]["timestamp"]
        /\ instruments[inst_order[1]]["temperature"] = 20
        /\ instruments[inst_order[2]]["temperature"] = 10
        /\ ret[t]["temperature"] = 10
        /\ ret[t]["timestamp"] = instruments[inst_order[2]]["timestamp"]

====
